---------------------------- MODULE Spec2Model ----------------------------
(***************************************************************************)
(* Model of the quadtree image codec (Darleanow/quadtree_compress):        *)
(* qtree_init / qtree_build, apply_lossy_compression, compress,            *)
(* qtree_decompress and qtree_to_pgm, each translated from its C source.   *)
(*                                                                         *)
(* A node is a record [m, e, u, v, children]; children is either the empty *)
(* sequence (all four slots NULL) or a sequence of four nodes indexed      *)
(* slot+1.  The variance v is kept as the exact integer v^2 * 4^n_levels   *)
(* (the code keeps a float; every comparison the code makes on v is made   *)
(* here on the squares, which orders the same non-negative reals).         *)
(***************************************************************************)
EXTENDS Integers, Sequences, FiniteSets, TLC

(* ------------------------------ bounds -------------------------------- *)
\* deepest tree the model builds (image side 2^MaxLevel)
MaxLevel == 2
\* how many times apply_lossy_compression is run on one tree
MaxFilter == 2

(* ------------------------- program constants -------------------------- *)
\* qtree_status_t
QTREE_SUCCESS == "QTREE_SUCCESS"
QTREE_ERROR_MEMORY == "QTREE_ERROR_MEMORY"
QTREE_ERROR_INVALID_PARAM == "QTREE_ERROR_INVALID_PARAM"
QTREE_ERROR_FORMAT == "QTREE_ERROR_FORMAT"

\* common.h: traversal order TL, TR, BR, BL
quadrant_order == <<0, 1, 2, 3>>

RECURSIVE Pow(_, _)
Pow(b, n) == IF n = 0 THEN 1 ELSE b * Pow(b, n - 1)

\* a/b <= c/d for a, c >= 0 and b, d > 0, compared by continued fractions
\* so that no product is formed
RECURSIVE FracLeq(_, _, _, _)
FracLeq(a, b, c, d) ==
    IF a \div b # c \div d THEN a \div b < c \div d
    ELSE IF a % b = 0 THEN TRUE
    ELSE IF c % d = 0 THEN FALSE
    ELSE FracLeq(d, c % d, b, a % b)

RECURSIVE Gcd(_, _)
Gcd(a, b) == IF b = 0 THEN a ELSE Gcd(b, a % b)

(* --------------------------- quadtree.c ------------------------------- *)

\* create_node: m, e, u zeroed, no children.  v is left unset by malloc;
\* it is written by calculate_node_variance before any read, so the
\* placeholder 0 is never observed.
create_node == [m |-> 0, e |-> 0, u |-> 0, v |-> 0, children |-> <<>>]

\* calculate_total_nodes: 1 + 4 + ... + 4^levels.  The uint32_t sum does
\* not wrap below 16 levels, far above the depths built here.
RECURSIVE total_nodes_loop(_, _, _, _)
total_nodes_loop(i, levels, total, nodes_at_level) ==
    IF i > levels THEN total
    ELSE total_nodes_loop(i + 1, levels, total + nodes_at_level,
                          IF i < levels THEN nodes_at_level * 4 ELSE 0)

calculate_total_nodes(levels) == total_nodes_loop(0, levels, 0, 1)

\* pixels is a row-major sequence; C index row*size+col
create_leaf_node(pixels, size, row, col) ==
    [create_node EXCEPT !.m = pixels[row * size + col + 1], !.e = 0, !.u = 1]

qtree_is_leaf(node) == node.children = <<>>

\* calculate_node_properties, buggy variant: rounds the mean to nearest
calculate_node_properties_round(node) ==
    LET m1 == node.children[1].m
        m2 == node.children[2].m
        m3 == node.children[3].m
        m4 == node.children[4].m
        sum == m1 + m2 + m3 + m4
        mean == ((sum + 2) \div 4) % 256
        error_val == (sum % 4) % 256
        all_uniform == /\ node.children[1].u = 1 /\ node.children[2].u = 1
                       /\ node.children[3].u = 1 /\ node.children[4].u = 1
        all_same == (m1 = m2) /\ (m2 = m3) /\ (m3 = m4)
        is_uniform == (error_val = 0) /\ all_uniform /\ all_same
    IN [node EXCEPT !.m = mean, !.e = error_val % 4,
                    !.u = IF is_uniform THEN 1 ELSE 0]

\* calculate_node_properties, buggy variant: forgets the all_same test
calculate_node_properties_nosame(node) ==
    LET m1 == node.children[1].m
        m2 == node.children[2].m
        m3 == node.children[3].m
        m4 == node.children[4].m
        sum == m1 + m2 + m3 + m4
        mean == (sum \div 4) % 256
        error_val == (sum % 4) % 256
        all_uniform == /\ node.children[1].u = 1 /\ node.children[2].u = 1
                       /\ node.children[3].u = 1 /\ node.children[4].u = 1
        is_uniform == (error_val = 0) /\ all_uniform
    IN [node EXCEPT !.m = mean, !.e = error_val % 4,
                    !.u = IF is_uniform THEN 1 ELSE 0]

\* calculate_node_properties: the node with m, e, u set from its children
\* (the boolean the C function returns is the new u)
calculate_node_properties(node) ==
    LET m1 == node.children[1].m
        m2 == node.children[2].m
        m3 == node.children[3].m
        m4 == node.children[4].m
        sum == m1 + m2 + m3 + m4
        mean == (sum \div 4) % 256
        error_val == (sum % 4) % 256
        all_uniform == /\ node.children[1].u = 1 /\ node.children[2].u = 1
                       /\ node.children[3].u = 1 /\ node.children[4].u = 1
        all_same == (m1 = m2) /\ (m2 = m3) /\ (m3 = m4)
        is_uniform == (error_val = 0) /\ all_uniform /\ all_same
    IN [node EXCEPT !.m = mean, !.e = error_val % 4,
                    !.u = IF is_uniform THEN 1 ELSE 0]

\* build_recursive: row/col offsets of quadrant q
child_row(q, row, step) == IF (q \div 2) % 2 = 1 THEN row + step ELSE row
child_col(q, col, step) ==
    IF (q % 2) # ((q \div 2) % 2) THEN col + step ELSE col

RECURSIVE build_recursive(_, _, _, _, _)
build_recursive(pixels, size, level, row, col) ==
    IF level = 0 THEN create_leaf_node(pixels, size, row, col)
    ELSE LET step == Pow(2, level - 1)
             kids == [i \in 1..4 |->
                        build_recursive(pixels, size, level - 1,
                                        child_row(i - 1, row, step),
                                        child_col(i - 1, col, step))]
             node == calculate_node_properties(
                        [create_node EXCEPT !.children = kids])
         IN IF node.u = 1 THEN [node EXCEPT !.children = <<>>] ELSE node

\* number of build_recursive calls: one per node of the complete tree
RECURSIVE build_calls(_)
build_calls(level) == IF level = 0 THEN 1 ELSE 1 + 4 * build_calls(level - 1)

\* qtree_init: n_levels = floor(log2(size)) for a power of two
RECURSIVE log2(_)
log2(size) == IF size <= 1 THEN 0 ELSE 1 + log2(size \div 2)

IsPow2(size) == size > 0 /\ Pow(2, log2(size)) = size


(* ------------------ quadtree.c: variance statistics ------------------- *)

\* sum over the four children of v_k^2 + (m - m_k)^2, times 4^n_levels
variance_mu(node, scale) ==
    LET term(k) == node.children[k].v
                   + scale * (node.m - node.children[k].m)
                           * (node.m - node.children[k].m)
    IN term(1) + term(2) + term(3) + term(4)

\* calculate_node_variance: leaves get 0, others sqrt(mu/4) (kept squared)
calculate_node_variance(node, scale) ==
    IF qtree_is_leaf(node) THEN [node EXCEPT !.v = 0]
    ELSE [node EXCEPT !.v = variance_mu(node, scale) \div 4]

\* calculate_variances_recursive: post-order; returns the node with every v
\* set and the strictly positive variances appended to the array
RECURSIVE calculate_variances_recursive(_, _, _)
calculate_variances_recursive(node, variances, scale) ==
    LET c1 == IF qtree_is_leaf(node) THEN [node |-> node, variances |-> variances]
              ELSE calculate_variances_recursive(node.children[1], variances, scale)
        c2 == IF qtree_is_leaf(node) THEN c1
              ELSE calculate_variances_recursive(node.children[2], c1.variances, scale)
        c3 == IF qtree_is_leaf(node) THEN c2
              ELSE calculate_variances_recursive(node.children[3], c2.variances, scale)
        c4 == IF qtree_is_leaf(node) THEN c3
              ELSE calculate_variances_recursive(node.children[4], c3.variances, scale)
        kids == IF qtree_is_leaf(node) THEN <<>>
                ELSE <<c1.node, c2.node, c3.node, c4.node>>
        n == calculate_node_variance([node EXCEPT !.children = kids], scale)
    IN [node |-> n,
        variances |-> IF n.v > 0 THEN Append(c4.variances, n.v)
                      ELSE c4.variances]

\* qsort with compare_floats: ascending order
RECURSIVE insert_sorted(_, _)
insert_sorted(s, x) ==
    IF s = <<>> THEN <<x>>
    ELSE IF x <= Head(s) THEN <<x>> \o s
    ELSE <<Head(s)>> \o insert_sorted(Tail(s), x)

RECURSIVE qsort(_)
qsort(s) == IF s = <<>> THEN <<>> ELSE insert_sorted(qsort(Tail(s)), Head(s))

\* calculate_variance_stats: median = variances[count/2], max = last;
\* both 0 when no variance is positive.  Also yields the annotated root.
calculate_variance_stats(root, n_levels) ==
    LET r == calculate_variances_recursive(root, <<>>, Pow(4, n_levels))
        sorted == qsort(r.variances)
        count == Len(sorted)
    IN [root |-> r.node,
        median_variance |-> IF count > 0 THEN sorted[(count \div 2) + 1] ELSE 0,
        max_variance |-> IF count > 0 THEN sorted[count] ELSE 0]

(* ------------------- compression.c: lossy filter ---------------------- *)

\* update_node_variance: same formula, leaves untouched
update_node_variance(node, scale) ==
    IF qtree_is_leaf(node) THEN node
    ELSE [node EXCEPT !.v = variance_mu(node, scale) \div 4]

\* is_uniform_block: e == 0, every present child uniform, all means equal
is_uniform_block(node) ==
    /\ node.e = 0
    /\ \A i \in 1..Len(node.children) : node.children[i].u = 1
    /\ \A i \in 2..Len(node.children) : node.children[i].m = node.children[1].m

\* A threshold is the square of the float, as the fraction num/den in
\* lowest terms; den = 0 is the NaN of 0.0f/0.0f, for which every <= is
\* false.
make_threshold(num, den) ==
    IF den = 0 THEN [num |-> 0, den |-> 0]
    ELSE [num |-> num \div Gcd(num, den), den |-> den \div Gcd(num, den)]

\* node->v <= threshold
variance_below(node, threshold, scale) ==
    /\ threshold.den # 0
    /\ FracLeq(node.v, scale, threshold.num, threshold.den)

\* threshold * alpha, alpha = an/ad
threshold_times(threshold, alpha) ==
    LET g1 == Gcd(alpha[1] * alpha[1], threshold.den)
        g2 == Gcd(threshold.num, alpha[2] * alpha[2])
    IN IF threshold.den = 0 THEN threshold
       ELSE [num |-> (threshold.num \div g2) * ((alpha[1] * alpha[1]) \div g1),
             den |-> (threshold.den \div g1) * ((alpha[2] * alpha[2]) \div g2)]

\* the promotion branch, buggy variant: the mean is rounded to nearest
promote_adjust_m(node) ==
    [node EXCEPT !.u = 1, !.e = 0, !.children = <<>>,
                 !.m = (node.m + (IF node.e >= 2 THEN 1 ELSE 0)) % 256]

\* the promotion branch of filter_node_recursive: u = 1, e = 0, children freed
promote(node) == [node EXCEPT !.u = 1, !.e = 0, !.children = <<>>]

\* filter_node_recursive: returns the filtered node and the boolean result
RECURSIVE filter_node_recursive(_, _, _, _)
filter_node_recursive(node, threshold, alpha, scale) ==
    IF qtree_is_leaf(node) THEN [node |-> node, uniform |-> TRUE]
    ELSE
      LET n0 == update_node_variance(node, scale)
          next == threshold_times(threshold, alpha)
          r == [i \in 1..4 |->
                  filter_node_recursive(n0.children[i], next, alpha, scale)]
          all_children_uniform == \A i \in 1..4 : r[i].uniform
          n1 == [n0 EXCEPT !.children = [i \in 1..4 |-> r[i].node]]
      IN IF variance_below(n1, threshold, scale) /\ all_children_uniform
         THEN [node |-> promote(n1), uniform |-> TRUE]
         ELSE LET ub == is_uniform_block(n1)
              IN [node |-> [n1 EXCEPT !.u = IF ub THEN 1 ELSE 0],
                  uniform |-> ub]

\* apply_lossy_compression (alpha > 1): the filtered root
apply_lossy_compression(root, n_levels, alpha) ==
    LET stats == calculate_variance_stats(root, n_levels)
        initial_threshold == make_threshold(stats.median_variance,
                                            stats.max_variance)
    IN filter_node_recursive(stats.root, initial_threshold, alpha,
                             Pow(4, n_levels)).node


(* --------------------- compression.c: bit writer ---------------------- *)

\* The writer is modelled by the sequence of bits handed to
\* compress_write_bit, in order (total_bits is its length); the bytes that
\* reach the file are that sequence cut into bytes.

\* compress_write_bits: bit num_bits-1 of value first, bit 0 last
compress_write_bits(value, num_bits) ==
    [i \in 1..num_bits |-> (value \div Pow(2, num_bits - i)) % 2]

\* compress_write_bit, buggy variant: fills each byte from its low bit
written_bytes_lsb(bits) ==
    LET bit(k) == IF k <= Len(bits) THEN bits[k] ELSE 0
    IN [b \in 1..((Len(bits) + 7) \div 8) |->
          bit(8 * b - 7) + 2 * bit(8 * b - 6) + 4 * bit(8 * b - 5)
          + 8 * bit(8 * b - 4) + 16 * bit(8 * b - 3) + 32 * bit(8 * b - 2)
          + 64 * bit(8 * b - 1) + 128 * bit(8 * b)]

\* compress_write_bit and compress_flush: bit k of a byte goes to position
\* 7 - k; every full byte is emitted, and a last partial byte zero padded
written_bytes(bits) ==
    LET bit(k) == IF k <= Len(bits) THEN bits[k] ELSE 0
    IN [b \in 1..((Len(bits) + 7) \div 8) |->
          128 * bit(8 * b - 7) + 64 * bit(8 * b - 6) + 32 * bit(8 * b - 5)
          + 16 * bit(8 * b - 4) + 8 * bit(8 * b - 3) + 4 * bit(8 * b - 2)
          + 2 * bit(8 * b - 1) + bit(8 * b)]

\* The same writer with its state, one call at a time.  The FILE it writes
\* to is [bytes, attempts, fails]: the bytes it holds, the number of fwrite
\* calls made on it, and the calls (by number) that fail.
fwrite(file, byte) ==
    LET ok == (file.attempts + 1) \notin file.fails
    IN [ok |-> ok,
        file |-> [file EXCEPT !.attempts = @ + 1,
                              !.bytes = IF ok THEN Append(@, byte) ELSE @]]

\* value >> k without forming 2^k
RECURSIVE Shr(_, _)
Shr(value, k) == IF k = 0 THEN value ELSE Shr(value \div 2, k - 1)

\* buffer | mask, mask a single bit
BitOr(buffer, mask) ==
    IF (buffer \div mask) % 2 = 1 THEN buffer ELSE buffer + mask

compress_init(file) ==
    [buffer |-> 0, bit_position |-> 0, file |-> file, bytes_written |-> 0,
     total_bits |-> 0, error |-> 0]

\* compress_write_bit, buggy variant: goes on after an error
compress_write_bit_noerr(state, bit) ==
    LET position == state.bit_position % 8
        set == IF bit % 2 = 0 THEN state.buffer
               ELSE BitOr(state.buffer, Pow(2, 7 - position))
        full(w) ==
            IF ~w.ok THEN [state EXCEPT !.buffer = set, !.bit_position = 8,
                                        !.total_bits = @ + 1,
                                        !.file = w.file, !.error = 1]
            ELSE [state EXCEPT !.buffer = 0, !.bit_position = 0,
                               !.total_bits = @ + 1, !.file = w.file,
                               !.bytes_written = @ + 1]
    IN IF position + 1 = 8 THEN full(fwrite(state.file, set))
       ELSE [state EXCEPT !.buffer = set, !.bit_position = position + 1,
                          !.total_bits = @ + 1]

\* compress_write_bit, buggy variant: fills the byte from its low bit
compress_write_bit_lsb(state, bit) ==
    LET set == IF bit % 2 = 0 THEN state.buffer
               ELSE BitOr(state.buffer, Pow(2, state.bit_position))
        full(w) ==
            IF ~w.ok THEN [state EXCEPT !.buffer = set, !.bit_position = 8,
                                        !.total_bits = @ + 1,
                                        !.file = w.file, !.error = 1]
            ELSE [state EXCEPT !.buffer = 0, !.bit_position = 0,
                               !.total_bits = @ + 1, !.file = w.file,
                               !.bytes_written = @ + 1]
    IN IF state.error # 0 THEN state
       ELSE IF state.bit_position + 1 = 8 THEN full(fwrite(state.file, set))
       ELSE [state EXCEPT !.buffer = set, !.bit_position = @ + 1,
                          !.total_bits = @ + 1]

\* compress_write_bit: nothing once error is set; else the bit is or-ed
\* into buffer at position 7 - bit_position, and a full byte goes to the
\* file (a failed fwrite sets error and leaves buffer and bit_position)
compress_write_bit(state, bit) ==
    LET set == IF bit % 2 = 0 THEN state.buffer
               ELSE BitOr(state.buffer, Pow(2, 7 - state.bit_position))
        full(w) ==
            IF ~w.ok THEN [state EXCEPT !.buffer = set, !.bit_position = 8,
                                        !.total_bits = @ + 1,
                                        !.file = w.file, !.error = 1]
            ELSE [state EXCEPT !.buffer = 0, !.bit_position = 0,
                               !.total_bits = @ + 1, !.file = w.file,
                               !.bytes_written = @ + 1]
    IN IF state.error # 0 THEN state
       ELSE IF state.bit_position + 1 = 8 THEN full(fwrite(state.file, set))
       ELSE [state EXCEPT !.buffer = set, !.bit_position = @ + 1,
                          !.total_bits = @ + 1]

\* compress_write_bits on a writer state: the loop from index i on
RECURSIVE compress_write_bits_loop(_, _, _, _)
compress_write_bits_loop(state, value, num_bits, i) ==
    IF i >= num_bits \/ state.error # 0 THEN state
    ELSE compress_write_bits_loop(
             compress_write_bit(state, Shr(value, num_bits - 1 - i) % 2),
             value, num_bits, i + 1)

\* compress_flush, buggy variant: bit_position is not reset
compress_flush_again(state) ==
    LET flushed(w) ==
            IF ~w.ok THEN [state EXCEPT !.file = w.file, !.error = 1]
            ELSE [state EXCEPT !.file = w.file, !.buffer = 0,
                               !.bytes_written = @ + 1]
    IN IF state.error # 0 \/ state.bit_position = 0 THEN state
       ELSE flushed(fwrite(state.file, state.buffer))

\* compress_flush: writes the partial byte, if any
compress_flush(state) ==
    LET flushed(w) ==
            IF ~w.ok THEN [state EXCEPT !.file = w.file, !.error = 1]
            ELSE [state EXCEPT !.file = w.file, !.buffer = 0,
                               !.bit_position = 0, !.bytes_written = @ + 1]
    IN IF state.error # 0 \/ state.bit_position = 0 THEN state
       ELSE flushed(fwrite(state.file, state.buffer))

(* ---------------------- compression.c: encoder ------------------------ *)

\* write_node, buggy variant: never writes the u bit
write_node_no_u(node, is_leaf, is_interpolated) ==
    LET mbits == IF is_interpolated THEN <<>>
                 ELSE compress_write_bits(node.m, 8)
    IN IF is_leaf THEN mbits
       ELSE mbits \o compress_write_bits(node.e, 2)

\* write_node, buggy variant: writes e on 3 bits
write_node_wide_e(node, is_leaf, is_interpolated) ==
    LET mbits == IF is_interpolated THEN <<>>
                 ELSE compress_write_bits(node.m, 8)
        ebits == compress_write_bits(node.e, 3)
    IN IF is_leaf THEN mbits
       ELSE IF node.e = 0 THEN mbits \o ebits \o compress_write_bits(node.u, 1)
       ELSE mbits \o ebits

\* write_node, buggy variant: writes m for an interpolated node too
write_node_all_means(node, is_leaf, is_interpolated) ==
    LET mbits == compress_write_bits(node.m, 8)
        ebits == compress_write_bits(node.e, 2)
    IN IF is_leaf THEN mbits
       ELSE IF node.e = 0 THEN mbits \o ebits \o compress_write_bits(node.u, 1)
       ELSE mbits \o ebits

\* write_node, buggy variant: writes the u bit whatever e is
write_node_always_u(node, is_leaf, is_interpolated) ==
    LET mbits == IF is_interpolated THEN <<>>
                 ELSE compress_write_bits(node.m, 8)
    IN IF is_leaf THEN mbits
       ELSE mbits \o compress_write_bits(node.e, 2)
                  \o compress_write_bits(node.u, 1)

\* write_node: m (8 bits) unless interpolated; then, unless a leaf of the
\* last level, e (2 bits) and, when e == 0, u (1 bit)
write_node(node, is_leaf, is_interpolated) ==
    LET mbits == IF is_interpolated THEN <<>>
                 ELSE compress_write_bits(node.m, 8)
        ebits == compress_write_bits(node.e, 2)
    IN IF is_leaf THEN mbits
       ELSE IF node.e = 0 THEN mbits \o ebits \o compress_write_bits(node.u, 1)
       ELSE mbits \o ebits

\* compress_tree_level, buggy variant: children taken in raster order
\* TL, TR, BL, BR
RECURSIVE compress_tree_level_raster(_, _, _, _, _)
compress_tree_level_raster(n_levels, node, current_level, target_level, is_interpolated) ==
    LET is_leaf == node.e = 0 /\ node.u = 1 /\ current_level = n_levels
        sub(q, i) == compress_tree_level_raster(n_levels, node.children[q + 1],
                         current_level + 1, target_level, i = 3)
    IN IF current_level = target_level
       THEN write_node(node, is_leaf, is_interpolated)
       ELSE IF node.u = 0 /\ node.children # <<>>
       THEN sub(0, 0) \o sub(1, 1) \o sub(3, 2) \o sub(2, 3)
       ELSE <<>>

\* compress_tree_level, buggy variant: descends into uniform nodes too
RECURSIVE compress_tree_level_enter(_, _, _, _, _)
compress_tree_level_enter(n_levels, node, current_level, target_level, is_interpolated) ==
    LET is_leaf == node.e = 0 /\ node.u = 1 /\ current_level = n_levels
        sub(i) == compress_tree_level_enter(n_levels,
                      node.children[quadrant_order[i] + 1],
                      current_level + 1, target_level, i - 1 = 3)
    IN IF current_level = target_level
       THEN write_node(node, is_leaf, is_interpolated)
       ELSE IF node.children # <<>>
       THEN sub(1) \o sub(2) \o sub(3) \o sub(4)
       ELSE <<>>

\* compress_tree_level: the bits written for the nodes of depth
\* target_level under node, in quadrant order, without entering uniform
\* nodes (a NULL child writes nothing)
RECURSIVE compress_tree_level(_, _, _, _, _)
compress_tree_level(n_levels, node, current_level, target_level, is_interpolated) ==
    LET is_leaf == node.e = 0 /\ node.u = 1 /\ current_level = n_levels
        sub(i) == compress_tree_level(n_levels,
                      node.children[quadrant_order[i] + 1],
                      current_level + 1, target_level, i - 1 = 3)
    IN IF current_level = target_level
       THEN write_node(node, is_leaf, is_interpolated)
       ELSE IF node.u = 0 /\ node.children # <<>>
       THEN sub(1) \o sub(2) \o sub(3) \o sub(4)
       ELSE <<>>

\* compress_tree_data: one pass per level 0..n_levels
RECURSIVE compress_levels(_, _, _)
compress_levels(n_levels, root, level) ==
    IF level > n_levels THEN <<>>
    ELSE compress_tree_level(n_levels, root, 0, level, FALSE)
         \o compress_levels(n_levels, root, level + 1)

compress_tree_data(n_levels, root) == compress_levels(n_levels, root, 0)

\* The two informational comment lines of write_header.  Their text (the
\* local time, the rate) is opaque to the reader; each is "# ...\n".
TimestampLine == <<35, 32, 84, 10>>
RateLine == <<35, 32, 82, 10>>

\* write_header: "Q1", "\n", the two comments, the low byte of n_levels
write_header(n_levels) ==
    <<81, 49, 10>> \o TimestampLine \o RateLine \o <<n_levels % 256>>

HeaderLen == Len(write_header(0))

\* compress: header followed by the bytes of the temporary buffer
compress(n_levels, root) ==
    write_header(n_levels) \o written_bytes(compress_tree_data(n_levels, root))

\* The steps of codec_compress, with those of the compress it calls, in
\* the order of the code, buggy variant: the output file is opened first.
codec_compress_steps_open_first ==
    <<"fopen", "pgm_read", "qtree_init", "qtree_build",
      "apply_lossy_compression", "tmpfile", "compress_tree_data",
      "write_header", "copy">>

\* The steps of codec_compress, with those of the compress it calls
\* (tmpfile, compress_tree_data into the temporary buffer, write_header to
\* the output, the copy of the temporary buffer), in the order of the code.
codec_compress_steps ==
    <<"pgm_read", "qtree_init", "qtree_build", "apply_lossy_compression",
      "fopen", "tmpfile", "compress_tree_data", "write_header", "copy">>

\* the step reached when step has succeeded; after the last one the
\* function falls into cleanup
step_after(step) ==
    LET k == CHOOSE i \in 1..Len(codec_compress_steps) :
                 codec_compress_steps[i] = step
    IN IF k = Len(codec_compress_steps) THEN "cleanup"
       ELSE codec_compress_steps[k + 1]


(* --------------------------- common.c --------------------------------- *)

\* calculate_fourth_mean, buggy variant: drops the residual
calculate_fourth_mean_noerr(parent_mean, error, m1, m2, m3) ==
    (4 * parent_mean - (m1 + m2 + m3)) % 256

\* calculate_fourth_mean: (4*parent_mean + error) - (m1+m2+m3), cast to
\* uint8_t (TLA+ % is non-negative for a positive modulus)
calculate_fourth_mean(parent_mean, error, m1, m2, m3) ==
    ((4 * parent_mean + error) - (m1 + m2 + m3)) % 256

(* -------------------- decompression.c: bit reader --------------------- *)

\* the bit_reader_t of qtree_decompress; fpos is the stream position
\* (number of bytes already consumed from the file)
reader_init(fpos) == [buffer |-> 0, position |-> 8, fpos |-> fpos,
                      eof |-> FALSE, has_error |-> FALSE]

bit_of(byte, position) == (byte \div Pow(2, 7 - position)) % 2

\* read_bit: pulls the next byte when the current one is exhausted; at end
\* of file sets eof and has_error and yields 0
read_bit(reader, file) ==
    IF reader.has_error \/ reader.eof THEN [bit |-> 0, reader |-> reader]
    ELSE IF reader.position = 8
    THEN IF reader.fpos >= Len(file)
         THEN [bit |-> 0,
               reader |-> [reader EXCEPT !.eof = TRUE, !.has_error = TRUE]]
         ELSE LET byte == file[reader.fpos + 1]
              IN [bit |-> bit_of(byte, 0),
                  reader |-> [reader EXCEPT !.buffer = byte, !.position = 1,
                                            !.fpos = reader.fpos + 1]]
    ELSE [bit |-> bit_of(reader.buffer, reader.position),
          reader |-> [reader EXCEPT !.position = reader.position + 1]]

\* read_bits: num_bits <= 8 bits, MSB first; 0 once the reader has failed
RECURSIVE read_bits_from(_, _, _, _, _)
read_bits_from(reader, file, num_bits, i, value) ==
    IF i >= num_bits THEN [value |-> value, reader |-> reader]
    ELSE LET b == read_bit(reader, file)
             v == (value * 2 + b.bit) % 256
         IN IF b.reader.eof /\ i < num_bits - 1
            THEN [value |-> 0, reader |-> [b.reader EXCEPT !.has_error = TRUE]]
            ELSE read_bits_from(b.reader, file, num_bits, i + 1, v)

read_bits(reader, file, num_bits) ==
    IF reader.has_error \/ reader.eof \/ num_bits > 8
    THEN [value |-> 0, reader |-> reader]
    ELSE read_bits_from(reader, file, num_bits, 0, 0)

(* --------------------- decompression.c: header ------------------------ *)

\* fgets(line, 256, file): the position after one line (through '\n', at
\* most 255 bytes, or to end of file), n bytes of the line being taken
\* already
fgets_end(file, pos, n) ==
    LET room == IF n >= 255 THEN 0 ELSE 255 - n
        last == IF pos + room > Len(file) THEN Len(file) ELSE pos + room
        feeds == { p \in (pos + 1)..last : file[p] = 10 }
    IN IF pos >= Len(file) THEN pos
       ELSE IF feeds = {} THEN last
       ELSE CHOOSE p \in feeds : \A q \in feeds : p <= q

\* the comment loop: at most two lines, stopping early at end of file
skip_comments(file, pos) ==
    LET p1 == fgets_end(file, pos, 0)
    IN IF pos >= Len(file) THEN pos
       ELSE IF p1 >= Len(file) THEN p1
       ELSE fgets_end(file, p1, 0)

\* process_file_header returns void.  What the caller can observe is the
\* stream position it leaves and whether *levels was written (levels_set);
\* an out-of-range depth is logged but stays stored.
process_file_header(file) ==
    IF Len(file) < 2 THEN [pos |-> Len(file), levels_set |-> FALSE, levels |-> 0]
    ELSE IF file[1] # 81 \/ file[2] # 49
    THEN [pos |-> 2, levels_set |-> FALSE, levels |-> 0]
    ELSE IF Len(file) < 3 THEN [pos |-> 2, levels_set |-> FALSE, levels |-> 0]
    ELSE IF file[3] # 10 THEN [pos |-> 3, levels_set |-> FALSE, levels |-> 0]
    ELSE LET p == skip_comments(file, 3)
         IN IF p >= Len(file)
            THEN [pos |-> p, levels_set |-> FALSE, levels |-> 0]
            ELSE [pos |-> p + 1, levels_set |-> TRUE, levels |-> file[p + 1]]


(* --------------------- decompression.c: decoder ----------------------- *)

\* The decoder links nodes through pointers while it reads, so its nodes
\* live in a heap: a sequence of records whose children are four heap
\* indices, 0 for NULL.  NULL_NODE is the NULL pointer.
NULL_NODE == 0

calloc_node == [m |-> 0, e |-> 0, u |-> 0, children |-> <<0, 0, 0, 0>>]

\* the e/u part of decompress_node, buggy variant: a node of the last level
\* is left with u = 0
read_attributes_leaf_u0(reader, file, level, max_level) ==
    IF level < max_level
    THEN LET re == read_bits(reader, file, 2)
             e == re.value % 4
             ru == IF e = 0 THEN read_bit(re.reader, file)
                   ELSE [bit |-> 0, reader |-> re.reader]
         IN [e |-> e, u |-> ru.bit, reader |-> ru.reader]
    ELSE [e |-> 0, u |-> 0, reader |-> reader]

\* the e/u part of decompress_node
read_attributes(reader, file, level, max_level) ==
    IF level < max_level
    THEN LET re == read_bits(reader, file, 2)
             e == re.value % 4
             ru == IF e = 0 THEN read_bit(re.reader, file)
                   ELSE [bit |-> 0, reader |-> re.reader]
         IN [e |-> e, u |-> ru.bit, reader |-> ru.reader]
    ELSE [e |-> 0, u |-> 1, reader |-> reader]

\* decompress_node: id = NULL_NODE when it returns NULL.  parent is a heap
\* index (NULL_NODE for the root).
decompress_node(reader, file, heap, level, max_level, parent, child_index) ==
    IF reader.has_error
    THEN [id |-> NULL_NODE, heap |-> heap, reader |-> reader]
    ELSE IF child_index < 3
    THEN LET rm == read_bits(reader, file, 8)
             a == read_attributes(rm.reader, file, level, max_level)
             node == [calloc_node EXCEPT !.m = rm.value, !.e = a.e, !.u = a.u]
         IN [id |-> Len(heap) + 1, heap |-> Append(heap, node),
             reader |-> a.reader]
    ELSE IF \/ parent = NULL_NODE
            \/ heap[parent].children[1] = NULL_NODE
            \/ heap[parent].children[2] = NULL_NODE
            \/ heap[parent].children[3] = NULL_NODE
    THEN [id |-> NULL_NODE, heap |-> heap,
          reader |-> [reader EXCEPT !.has_error = TRUE]]
    ELSE LET m == calculate_fourth_mean(heap[parent].m, heap[parent].e,
                                        heap[heap[parent].children[1]].m,
                                        heap[heap[parent].children[2]].m,
                                        heap[heap[parent].children[3]].m)
             a == read_attributes(reader, file, level, max_level)
             node == [calloc_node EXCEPT !.m = m, !.e = a.e, !.u = a.u]
         IN [id |-> Len(heap) + 1, heap |-> Append(heap, node),
             reader |-> a.reader]

\* the inner loop of decompress_level: children j..3 of one parent
RECURSIVE decompress_children(_, _, _, _, _, _, _, _)
decompress_children(reader, file, heap, level, max_level, parent, j, current) ==
    IF j > 3 THEN [ok |-> TRUE, heap |-> heap, reader |-> reader,
                   current |-> current]
    ELSE LET after(r) ==
                IF r.id = NULL_NODE
                THEN [ok |-> FALSE, heap |-> r.heap, reader |-> r.reader,
                      current |-> current]
                ELSE decompress_children(r.reader, file,
                        [r.heap EXCEPT ![parent].children[j + 1] = r.id],
                        level, max_level, parent, j + 1, Append(current, r.id))
         IN after(decompress_node(reader, file, heap, level, max_level,
                                  parent, j))

\* decompress_level, buggy variant: uniform parents get children too
RECURSIVE decompress_level_from_all(_, _, _, _, _, _, _, _)
decompress_level_from_all(reader, file, heap, level, max_level, prev_level, i, current) ==
    IF i > Len(prev_level) \/ reader.has_error
    THEN [ok |-> TRUE, heap |-> heap, reader |-> reader, current |-> current]
    ELSE LET after(r) ==
                IF ~r.ok THEN r
                ELSE decompress_level_from_all(r.reader, file, r.heap, level,
                                               max_level, prev_level, i + 1,
                                               r.current)
         IN after(decompress_children(reader, file, heap, level, max_level,
                                      prev_level[i], 0, current))

\* decompress_level: four children for every non-uniform node of the
\* previous level; ok = FALSE when it returns NULL.  malloc of the level
\* array is taken to succeed (also for a size of 0 bytes).
RECURSIVE decompress_level_from(_, _, _, _, _, _, _, _)
decompress_level_from(reader, file, heap, level, max_level, prev_level, i, current) ==
    IF i > Len(prev_level) \/ reader.has_error
    THEN [ok |-> TRUE, heap |-> heap, reader |-> reader, current |-> current]
    ELSE IF heap[prev_level[i]].u = 1
    THEN decompress_level_from(reader, file, heap, level, max_level,
                               prev_level, i + 1, current)
    ELSE LET after(r) ==
                IF ~r.ok THEN r
                ELSE decompress_level_from(r.reader, file, r.heap, level,
                                           max_level, prev_level, i + 1,
                                           r.current)
         IN after(decompress_children(reader, file, heap, level, max_level,
                                      prev_level[i], 0, current))

decompress_level(reader, file, heap, level, max_level, prev_level) ==
    decompress_level_from(reader, file, heap, level, max_level, prev_level,
                          1, <<>>)

\* the level loop of qtree_decompress
\* the final return of qtree_decompress, buggy variant: has_error ignored
decompress_return_success(reader) == QTREE_SUCCESS

\* the final return of qtree_decompress
decompress_return(reader) ==
    IF reader.has_error THEN QTREE_ERROR_FORMAT ELSE QTREE_SUCCESS

\* (once the previous level holds no node, every further iteration
\* allocates an empty level and changes nothing, so the loop is cut there)
RECURSIVE decompress_levels(_, _, _, _, _, _)
decompress_levels(reader, file, heap, level, n_levels, prev_level) ==
    IF level > n_levels \/ reader.has_error \/ prev_level = <<>>
    THEN [status |-> decompress_return(reader), heap |-> heap,
          reader |-> reader, freed |-> <<>>]
    ELSE LET after(r) ==
                IF ~r.ok
                THEN [status |-> QTREE_ERROR_FORMAT, heap |-> r.heap,
                      reader |-> r.reader, freed |-> r.current]
                ELSE decompress_levels(r.reader, file, r.heap, level + 1,
                                       n_levels, r.current)
         IN after(decompress_level(reader, file, heap, level, n_levels,
                                   prev_level))

\* qtree_decompress after process_file_header: n_levels is the value of
\* the local variable, pos the stream position.  The root is heap index 1.
qtree_decompress(file, pos, n_levels) ==
    LET after(r) ==
            IF r.id = NULL_NODE
            THEN [status |-> QTREE_ERROR_FORMAT, heap |-> r.heap,
                  reader |-> r.reader, freed |-> <<>>]
            ELSE decompress_levels(r.reader, file, r.heap, 1, n_levels,
                                   <<r.id>>)
    IN after(decompress_node(reader_init(pos), file, <<>>, 0, n_levels,
                             NULL_NODE, 0))

\* The arithmetic qtree_decompress derives from the depth byte.  An
\* unsigned word is written as the set of the positions of its 1 bits: 2^k
\* is {k}, 0 is {} and 2^k - 1 is 0..(k - 1).
\*
\* 1 << n_levels with int operands (n_levels is a promoted uint8_t), stored
\* into the uint32_t tree->size.  The shift is defined for counts up to 30.
\* A count of 31 overflows the int (the builds wrap to the sign bit, which
\* converts to 2^31); a count of 32 or more is not a shift the language
\* defines: the machine's shifter takes the count modulo 32 or shifts
\* every bit out.
shift_one_int(count) ==
    IF count < 31 THEN { [value |-> {count}, defined |-> TRUE] }
    ELSE IF count = 31 THEN { [value |-> {31}, defined |-> FALSE] }
    ELSE { [value |-> {count % 32}, defined |-> FALSE],
           [value |-> {}, defined |-> FALSE] }

\* 1ULL << count: defined for counts up to 63
shift_one_ull(count) ==
    IF count < 64 THEN { [value |-> {count}, defined |-> TRUE] }
    ELSE { [value |-> {count % 64}, defined |-> FALSE],
           [value |-> {}, defined |-> FALSE] }

\* w - 1 in 64 bits for a word w with at most one 1 bit: 0 - 1 wraps to
\* the all-ones word
minus_one(w) ==
    IF w = {} THEN 0..63 ELSE 0..((CHOOSE k \in w : TRUE) - 1)

\* image_size * image_size * 8 in size_t, image_size having at most one 1
\* bit: the product keeps the bits below 64
original_bits(image_size) ==
    { 2 * k + 3 : k \in image_size } \cap 0..63

\* tree->size = 1 << n_levels, then init_stats(n_levels, tree->size): the
\* results the build can produce, together with the computations that were
\* not defined and the unsigned ones whose result lost bits
tree_size_and_stats(n_levels) ==
    { [size |-> s.value,
       total_nodes |-> minus_one(t.value),
       original_bits |-> original_bits(s.value),
       undefined |-> (IF s.defined THEN {} ELSE {"size"})
                     \cup (IF t.defined THEN {} ELSE {"total_nodes"}),
       wrapped |-> (IF t.value = {} THEN {"total_nodes"} ELSE {})
                   \cup (IF s.value # {} /\ original_bits(s.value) = {}
                         THEN {"original_bits"} ELSE {})] :
      s \in shift_one_int(n_levels), t \in shift_one_ull(n_levels * 2) }

\* the tree a heap index points to, as a node record
RECURSIVE heap_tree(_, _)
heap_tree(heap, id) ==
    LET n == heap[id]
    IN [m |-> n.m, e |-> n.e, u |-> n.u, v |-> 0,
        children |-> IF \A k \in 1..4 : n.children[k] = NULL_NODE THEN <<>>
                     ELSE [k \in 1..4 |-> heap_tree(heap, n.children[k])]]

\* free_quadtree_recursive on the decoder's heap: the ids it frees, in
\* order (children first, then the node)
RECURSIVE free_quadtree_recursive(_, _)
free_quadtree_recursive(heap, id) ==
    IF id = NULL_NODE THEN <<>>
    ELSE free_quadtree_recursive(heap, heap[id].children[1])
         \o free_quadtree_recursive(heap, heap[id].children[2])
         \o free_quadtree_recursive(heap, heap[id].children[3])
         \o free_quadtree_recursive(heap, heap[id].children[4])
         \o <<id>>

(* -------------------- decompression.c: renderer ----------------------- *)

\* offsets of the switch on quadrant_order[i]
extract_row(q, row, half_size) == IF q = 2 \/ q = 3 THEN row + half_size ELSE row
extract_col(q, col, half_size) == IF q = 1 \/ q = 2 THEN col + half_size ELSE col

\* extract_pixels, seen from one pixel (i, j) of the buffer: the value it
\* holds after extract_pixels(node, pixels, row, col, size, total_size)
\* when it held old before.  A uniform node or a node of side 1 fills its
\* block; otherwise the four quadrants are processed in order; a NULL
\* child writes nothing.  Every write of a call falls inside the block
\* (row, col, size) of the call, the quadrants being parts of it, so a
\* pixel outside the block keeps its value.
RECURSIVE extract_pixel(_, _, _, _, _, _, _, _)
extract_pixel(node, old, i, j, row, col, size, total_size) ==
    IF i < row \/ i >= row + size \/ j < col \/ j >= col + size THEN old
    ELSE IF node.u = 1 \/ size = 1
    THEN IF /\ i >= row /\ i < row + size /\ i < total_size
            /\ j >= col /\ j < col + size /\ j < total_size
         THEN node.m ELSE old
    ELSE IF node.children = <<>> THEN old
    ELSE LET half_size == size \div 2
             sub(k, px) == extract_pixel(
                              node.children[quadrant_order[k] + 1], px, i, j,
                              extract_row(quadrant_order[k], row, half_size),
                              extract_col(quadrant_order[k], col, half_size),
                              half_size, total_size)
         IN sub(4, sub(3, sub(2, sub(1, old))))

extract_pixels(node, pixels, row, col, size, total_size) ==
    [k \in 1..Len(pixels) |->
        extract_pixel(node, pixels[k], (k - 1) \div total_size,
                      (k - 1) % total_size, row, col, size, total_size)]

\* qtree_to_pgm: calloc'ed buffer of size*size bytes, then extract_pixels
qtree_to_pgm(root, size) ==
    extract_pixels(root, [k \in 1..(size * size) |-> 0], 0, 0, size, size)


(* ---------------- quadtree.c: the build and its allocations ---------- *)

\* The build again, with its nodes in a heap like the decoder's (children
\* are heap indices, NULL_NODE for NULL) and every malloc and free kept:
\* mem is [heap, allocs, fail_at, freed, root]; the malloc call number
\* fail_at returns NULL (none when fail_at is 0), freed lists the indices
\* handed to free, in order.

\* create_node: id = NULL_NODE when malloc fails
create_node_alloc(mem) ==
    IF mem.allocs + 1 = mem.fail_at
    THEN [id |-> NULL_NODE, mem |-> [mem EXCEPT !.allocs = @ + 1]]
    ELSE [id |-> Len(mem.heap) + 1,
          mem |-> [mem EXCEPT !.allocs = @ + 1,
                              !.heap = Append(@, calloc_node)]]

\* create_leaf_node
create_leaf_node_alloc(pixels, size, row, col, mem) ==
    LET made(a) ==
            IF a.id = NULL_NODE THEN a
            ELSE [id |-> a.id,
                  mem |-> [a.mem EXCEPT !.heap[a.id].m =
                                            pixels[row * size + col + 1],
                                        !.heap[a.id].e = 0,
                                        !.heap[a.id].u = 1]]
    IN made(create_node_alloc(mem))

\* free(node)
free_alloc(mem, id) == [mem EXCEPT !.freed = Append(@, id)]

\* free_quadtree_recursive(node), buggy variant: frees the children and
\* forgets the node
free_tree_alloc_children(mem, id) ==
    IF id = NULL_NODE THEN mem
    ELSE [mem EXCEPT !.freed =
             LET all == free_quadtree_recursive(mem.heap, id)
             IN @ \o SubSeq(all, 1, Len(all) - 1)]

\* free_quadtree_recursive(node)
free_tree_alloc(mem, id) ==
    [mem EXCEPT !.freed = @ \o free_quadtree_recursive(mem.heap, id)]

\* the end of build_recursive: calculate_node_properties on the node, whose
\* four children are then freed and unlinked if it is uniform
finish_node_alloc(mem, id) ==
    LET kids == mem.heap[id].children
        props == calculate_node_properties(
                     [create_node EXCEPT !.children =
                         [k \in 1..4 |-> mem.heap[kids[k]]]])
        set == [mem EXCEPT !.heap[id].m = props.m, !.heap[id].e = props.e,
                           !.heap[id].u = props.u]
    IN IF props.u = 1
       THEN [free_tree_alloc(free_tree_alloc(free_tree_alloc(
                 free_tree_alloc(set, kids[1]), kids[2]), kids[3]), kids[4])
               EXCEPT !.heap[id].children =
                         <<NULL_NODE, NULL_NODE, NULL_NODE, NULL_NODE>>]
       ELSE set

\* build_recursive; build_children_alloc is its loop over the children,
\* from index i on
RECURSIVE build_recursive_alloc(_, _, _, _, _, _)
RECURSIVE build_children_alloc(_, _, _, _, _, _, _, _)
build_children_alloc(pixels, size, level, row, col, node, i, mem) ==
    IF i > 3 THEN [id |-> node, mem |-> finish_node_alloc(mem, node)]
    ELSE LET q == quadrant_order[i + 1]
             step == Pow(2, level - 1)
             linked(c) ==
                 IF c.id = NULL_NODE
                 THEN [id |-> NULL_NODE, mem |-> free_tree_alloc(c.mem, node)]
                 ELSE build_children_alloc(pixels, size, level, row, col,
                          node, i + 1,
                          [c.mem EXCEPT !.heap[node].children[q + 1] = c.id])
         IN linked(build_recursive_alloc(pixels, size, level - 1,
                                         child_row(q, row, step),
                                         child_col(q, col, step), mem))

build_recursive_alloc(pixels, size, level, row, col, mem) ==
    LET created(a) ==
            IF a.id = NULL_NODE THEN a
            ELSE IF level = 0
            THEN LET leaf(l) == [id |-> l.id, mem |-> free_alloc(l.mem, a.id)]
                 IN leaf(create_leaf_node_alloc(pixels, size, row, col, a.mem))
            ELSE build_children_alloc(pixels, size, level, row, col, a.id,
                                      0, a.mem)
    IN created(create_node_alloc(mem))

\* the malloc calls of a build in which none fails: two per leaf of the
\* complete tree, one per other node
RECURSIVE build_allocs(_)
build_allocs(level) == IF level = 0 THEN 2 ELSE 1 + 4 * build_allocs(level - 1)

(* ------------------------------ inputs -------------------------------- *)

\* pixel values of the 1x1 and 2x2 inputs
Palette == {0, 1, 255}

\* 2x2 blocks (row-major) the larger inputs are tiled from, one block per
\* quadrant of the image
Blocks == { <<7, 7, 7, 7>>, <<2, 2, 2, 2>>, <<1, 3, 1, 3>>, <<0, 4, 0, 4>>,
            <<1, 2, 3, 4>> }

\* the smaller families used where the stream is damaged before decoding
StreamPalette == {0, 255}
StreamBlocks == { <<2, 2, 2, 2>>, <<1, 3, 1, 3>>, <<1, 2, 3, 4>> }

\* the image of side size whose quadrants TL, TR, BL, BR are tiled with
\* the blocks q[1], q[2], q[3], q[4]
TiledImage(size, q) ==
    [k \in 1..(size * size) |->
        LET r == (k - 1) \div size
            c == (k - 1) % size
            quad == 1 + (IF 2 * r >= size THEN 2 ELSE 0)
                      + (IF 2 * c >= size THEN 1 ELSE 0)
        IN q[quad][2 * (r % 2) + (c % 2) + 1]]

ImagesFrom(level, palette, blocks) ==
    IF level = 0 THEN { <<p>> : p \in palette }
    ELSE IF level = 1 THEN [1..4 -> palette] \cup blocks
    ELSE { TiledImage(Pow(2, level), q) : q \in [1..4 -> blocks] }

Images(level) == ImagesFrom(level, Palette, Blocks)

StreamImages(level) == ImagesFrom(level, StreamPalette, StreamBlocks)

\* 2x2 blocks with every pixel within 1 of 100, and the 4x4 inputs tiled
\* from them
PromoBlocks == { <<100, 100, 100, 100>>, <<101, 101, 101, 101>>,
                 <<99, 99, 99, 99>>, <<99, 101, 99, 101>>,
                 <<99, 99, 100, 101>>, <<100, 101, 100, 99>> }

PromoImages == { TiledImage(4, q) : q \in [1..4 -> PromoBlocks] }

\* the image of side size whose quadrants TL, TR, BL, BR are the images
\* q[1], q[2], q[3], q[4] of side size / 2
QuadImage(size, q) ==
    [k \in 1..(size * size) |->
        LET half == size \div 2
            r == (k - 1) \div size
            c == (k - 1) % size
            quad == 1 + (IF r >= half THEN 2 ELSE 0)
                      + (IF c >= half THEN 1 ELSE 0)
        IN q[quad][half * (r % half) + (c % half) + 1]]

\* 4x4 blocks for the 8x8 inputs of the lossy round trip: one whose 2x2
\* quadrants all have mean 2 and remainder 0 without being constant, two
\* constant ones, and one with strong contrast
LossyBlocks == { <<1, 3, 1, 3,  1, 3, 1, 3,  0, 4, 1, 3,  0, 4, 1, 3>>,
                 [k \in 1..16 |-> 2],
                 [k \in 1..16 |-> 3],
                 [k \in 1..16 |-> IF k % 2 = 0 THEN 200 ELSE 0] }

LossyImages == { QuadImage(8, q) : q \in [1..4 -> LossyBlocks] }

\* byte values of the 2x2 inputs that exercise calculate_fourth_mean: both
\* ends and the middle of 0..255
FourthBytes == {0, 1, 2, 127, 128, 254, 255}

\* the alpha values (> 1) the filter is run with, as fractions <<n, d>>
Alphas == { <<2, 1>>, <<4, 1>> }

\* depth bytes outside 1..32 written over the depth byte of a stream
BadDepths == {0, 33, 255}

\* values an unset uint8_t local can hold
IndeterminateLevels == 0..255

\* Header lines (without their line feed) of several contents and lengths:
\* empty, the comment compress writes, text that is no comment and holds a
\* NUL, and lines of 254 and 255 bytes (fgets takes at most 255 bytes in
\* one call).
HeaderLines == { <<>>, <<35, 32, 84>>, <<65, 0>>,
                 [i \in 1..254 |-> 35], [i \in 1..255 |-> 35] }

NoTree == [m |-> 0, e |-> 0, u |-> 0, v |-> 0, children |-> <<>>, null |-> TRUE]

(* --------------------------- state machine ---------------------------- *)

VARIABLES
    pc,          \* position in the pipeline
    pixels,      \* the input raster, row-major
    size,        \* side of the input raster
    tree,        \* the qtree_t of the compressing side: [root, n_levels, size]
    status,      \* what the last call on the compressing side returned
    progress,    \* progress_tracker_t of qtree_build: [processed, total]
    alpha,       \* alpha of the lossy filter, <<0, 1>> before any filter
    nfilter,     \* number of apply_lossy_compression calls so far
    before,      \* the root as it was before the latest filter call
    file,        \* the compressed stream, a sequence of bytes
    damage,      \* what was done to the stream after compress
    dtree,       \* the qtree_t of qtree_decompress: [root, n_levels]
    dstatus,     \* what qtree_decompress returned
    dreader,     \* the bit reader when qtree_decompress returned
    pgm,         \* pixel buffer produced by qtree_to_pgm
    file2,       \* the stream compress writes from the decoded tree
    bits,        \* the bits compress handed to compress_write_bit, in order
    dmem,        \* the decoder's nodes: [heap, freed] (freed: ids, in order)
    run,         \* one run of main: [pc, compress, generate_grid, lossy,
                 \*                   failed, status, exit]
    writer,      \* a bit writer driven call by call: [state, appended,
                 \*                   calls, flushes, at_error]
    breader,     \* a bit reader driven call by call: [reader, file, calls,
                 \*                   last, at_error]
    balloc,      \* the nodes of a qtree_build whose malloc can fail: [heap,
                 \*                   allocs, fail_at, freed, root]
    dstats,      \* tree->size and the statistics qtree_decompress derives
                 \* from the depth: [size, total_nodes, original_bits,
                 \*                  undefined, wrapped]
    out          \* codec_compress step by step: [pc, lossy, opened, output,
                 \*                   written, temp, done, failed]

vars == <<pc, pixels, size, tree, status, progress, alpha, nfilter, before,
          file, damage, dtree, dstatus, dreader, pgm, file2, bits, dmem, run,
          writer, breader, balloc, dstats, out>>

\* no call has returned yet
NoStatus == "none"

\* main has not been started
NoRun == [pc |-> "idle", compress |-> FALSE, generate_grid |-> FALSE,
          lossy |-> FALSE, failed |-> {}, status |-> NoStatus, exit |-> 0]

\* codec_compress has not been entered.  output is the content of the
\* output file, written the bytes this run wrote to it, temp the content
\* of the temporary buffer, done the steps that succeeded, in order.
NoOut == [pc |-> "idle", lossy |-> FALSE, opened |-> FALSE, output |-> <<>>,
          written |-> <<>>, temp |-> <<>>, done |-> <<>>, failed |-> "none"]

\* qtree_decompress has not computed anything
NoStats == [size |-> {}, total_nodes |-> {}, original_bits |-> {},
            undefined |-> {}, wrapped |-> {}]

\* a writer and a reader no call was made on
NoWriter == [state |-> compress_init([bytes |-> <<>>, attempts |-> 0,
                                      fails |-> {}]),
             appended |-> <<>>, calls |-> 0, flushes |-> 0,
             at_error |-> <<>>]

NoReader == [reader |-> reader_init(0), file |-> <<>>, calls |-> 0,
             last |-> 0, at_error |-> <<>>]

\* no node was allocated
NoAlloc == [heap |-> <<>>, allocs |-> 0, fail_at |-> 0, freed |-> <<>>,
            root |-> NULL_NODE]

\* the state before qtree_init, for an input raster of side 2^level
Start(level, raster) ==
    /\ pc = "start"
    /\ size = Pow(2, level)
    /\ pixels = raster
    /\ tree = [root |-> NoTree, n_levels |-> 0, size |-> 0]
    /\ status = NoStatus
    /\ progress = [processed |-> 0, total |-> 0]
    /\ alpha = <<0, 1>>
    /\ nfilter = 0
    /\ before = NoTree
    /\ file = <<>>
    /\ damage = "none"
    /\ dtree = [root |-> NoTree, n_levels |-> 0]
    /\ dstatus = NoStatus
    /\ dreader = reader_init(0)
    /\ pgm = <<>>
    /\ file2 = <<>>
    /\ bits = <<>>
    /\ dmem = [heap |-> <<>>, freed |-> <<>>]
    /\ run = NoRun
    /\ writer = NoWriter
    /\ breader = NoReader
    /\ balloc = NoAlloc
    /\ dstats = NoStats
    /\ out = NoOut

Init == \E level \in 0..MaxLevel : \E raster \in Images(level) :
            Start(level, raster)

StreamInit == \E level \in 0..MaxLevel : \E raster \in StreamImages(level) :
                  Start(level, raster)

\* qtree_init(tree, size)
QtreeInit ==
    /\ pc = "start"
    /\ IF IsPow2(size)
       THEN /\ tree' = [root |-> NoTree, n_levels |-> log2(size), size |-> size]
            /\ status' = QTREE_SUCCESS
            /\ pc' = "ready"
       ELSE /\ status' = QTREE_ERROR_INVALID_PARAM
            /\ pc' = "rejected"
            /\ UNCHANGED tree
    /\ UNCHANGED <<pixels, size, progress, alpha, nfilter, before, file,
                   damage, dtree, dstatus, dreader, pgm, file2, bits, dmem, run, writer, breader, balloc, dstats, out>>

\* qtree_build(tree, pixels, size).  The first build_recursive call
\* evaluates processed % (total / 100); when total < 100 that is a
\* remainder by zero, undefined behaviour: the build either traps (SIGFPE,
\* pc "crashed") or goes on with the condition taking either value, which
\* only decides a log_progress call.
QtreeBuild ==
    /\ pc = "ready"
    /\ LET total == calculate_total_nodes(tree.n_levels)
       IN \E trap \in IF total \div 100 = 0 THEN {TRUE, FALSE} ELSE {FALSE} :
            IF trap
            THEN /\ pc' = "crashed"
                 /\ progress' = [processed |-> 1, total |-> total]
                 /\ UNCHANGED <<tree, status, bits, dmem, run>>
            ELSE /\ pc' = "built"
                 /\ progress' = [processed |-> build_calls(tree.n_levels),
                                 total |-> total]
                 /\ tree' = [tree EXCEPT !.root =
                               build_recursive(pixels, size, tree.n_levels, 0, 0)]
                 /\ status' = QTREE_SUCCESS
    /\ UNCHANGED <<pixels, size, alpha, nfilter, before, file, damage, dtree,
                   dstatus, dreader, pgm, file2, bits, dmem, run, writer, breader, balloc, dstats, out>>

\* apply_lossy_compression(tree, a), a > 1; a second call uses the same a
ApplyLossy ==
    /\ pc = "built"
    /\ nfilter < MaxFilter
    /\ \E a \in Alphas :
          /\ nfilter > 0 => a = alpha
          /\ alpha' = a
          /\ tree' = [tree EXCEPT !.root =
                        apply_lossy_compression(tree.root, tree.n_levels, a)]
    /\ before' = tree.root
    /\ nfilter' = nfilter + 1
    /\ status' = QTREE_SUCCESS
    /\ UNCHANGED <<pc, pixels, size, progress, file, damage, dtree, dstatus,
                   dreader, pgm, file2, bits, dmem, run, writer, breader, balloc, dstats, out>>

\* compress(tree, output_file)
Compress ==
    /\ pc = "built"
    /\ file' = compress(tree.n_levels, tree.root)
    /\ bits' = compress_tree_data(tree.n_levels, tree.root)
    /\ status' = QTREE_SUCCESS
    /\ pc' = "compressed"
    /\ UNCHANGED <<pixels, size, tree, progress, alpha, nfilter, before,
                   damage, dtree, dstatus, dreader, pgm, file2, dmem, run, writer, breader, balloc, dstats, out>>

\* qtree_decompress(file, tree): header, then the body.  When
\* process_file_header returns without storing the depth, n_levels is read
\* unset and can hold any byte.
Decompress ==
    /\ pc = "compressed"
    /\ LET h == process_file_header(file)
           returned(r, n) ==
               /\ dstatus' = r.status
               /\ dreader' = r.reader
               /\ dmem' = [heap |-> r.heap, freed |-> r.freed]
               /\ dtree' = [root |-> IF r.status = QTREE_SUCCESS
                                      THEN heap_tree(r.heap, 1) ELSE NoTree,
                            n_levels |-> n]
       IN \E n \in IF h.levels_set THEN {h.levels} ELSE IndeterminateLevels :
            /\ returned(qtree_decompress(file, h.pos, n), n)
            /\ dstats' \in tree_size_and_stats(n)
    /\ pc' = "decoded"
    /\ UNCHANGED <<pixels, size, tree, status, progress, alpha, nfilter,
                   before, file, damage, pgm, file2, bits, run, writer,
                   breader, balloc, out>>

\* qtree_to_pgm(tree, pgm) on the decoded tree
ToPgm ==
    /\ pc = "decoded"
    /\ dstatus = QTREE_SUCCESS
    /\ dtree.n_levels <= tree.n_levels
    /\ pgm' = qtree_to_pgm(dtree.root, Pow(2, dtree.n_levels))
    /\ pc' = "rendered"
    /\ UNCHANGED <<pixels, size, tree, status, progress, alpha, nfilter,
                   before, file, damage, dtree, dstatus, dreader, file2, bits, dmem, run, writer, breader, balloc, dstats, out>>

\* compress(tree, output_file) on the decoded tree
Recompress ==
    /\ pc = "decoded"
    /\ dstatus = QTREE_SUCCESS
    /\ file2' = compress(dtree.n_levels, dtree.root)
    /\ pc' = "recompressed"
    /\ UNCHANGED <<pixels, size, tree, status, progress, alpha, nfilter,
                   before, file, damage, dtree, dstatus, dreader, pgm, bits, dmem, run, writer, breader, balloc, dstats, out>>

\* The stream is damaged between compress and qtree_decompress: its magic
\* becomes "PQ", ...
CorruptMagic ==
    /\ pc = "compressed" /\ damage = "none"
    /\ file' = <<80, 81>> \o SubSeq(file, 3, Len(file))
    /\ damage' = "magic"
    /\ UNCHANGED <<pc, pixels, size, tree, status, progress, alpha, nfilter,
                   before, dtree, dstatus, dreader, pgm, file2, bits, dmem, run, writer, breader, balloc, dstats, out>>

\* ... or its depth byte a value outside 1..32, ...
CorruptDepth ==
    /\ pc = "compressed" /\ damage = "none"
    /\ \E d \in BadDepths : file' = [file EXCEPT ![HeaderLen] = d]
    /\ damage' = "depth"
    /\ UNCHANGED <<pc, pixels, size, tree, status, progress, alpha, nfilter,
                   before, dtree, dstatus, dreader, pgm, file2, bits, dmem, run, writer, breader, balloc, dstats, out>>

\* The stream handed to qtree_decompress carries the depth byte L, any of
\* the depths 1..32 the header check accepts, in front of the body.
SetDepth ==
    /\ pc = "compressed" /\ damage = "none"
    /\ \E L \in 1..32 : file' = [file EXCEPT ![HeaderLen] = L]
    /\ damage' = "relabelled"
    /\ UNCHANGED <<pc, pixels, size, tree, status, progress, alpha, nfilter,
                   before, dtree, dstatus, dreader, pgm, file2, bits, dmem,
                   run, writer, breader, balloc, dstats, out>>

\* The stream handed to qtree_decompress has the magic line, then two
\* lines of any content, each ended by a line feed, then the depth byte and
\* the body compress wrote.
SetHeaderLines ==
    /\ pc = "compressed" /\ damage = "none"
    /\ \E l1 \in HeaderLines, l2 \in HeaderLines :
          file' = <<81, 49, 10>> \o l1 \o <<10>> \o l2 \o <<10>>
                  \o SubSeq(file, HeaderLen, Len(file))
    /\ damage' = "lines"
    /\ UNCHANGED <<pc, pixels, size, tree, status, progress, alpha, nfilter,
                   before, dtree, dstatus, dreader, pgm, file2, bits, dmem,
                   run, writer, breader, balloc, dstats, out>>

\* ... or it is cut to a strict prefix that still holds the whole header.
Truncate ==
    /\ pc = "compressed" /\ damage = "none"
    /\ \E k \in HeaderLen..(Len(file) - 1) : file' = SubSeq(file, 1, k)
    /\ damage' = "truncated"
    /\ UNCHANGED <<pc, pixels, size, tree, status, progress, alpha, nfilter,
                   before, dtree, dstatus, dreader, pgm, file2, bits, dmem, run, writer, breader, balloc, dstats, out>>

\* codec_decompress from the return of qtree_decompress to its own return.
\* A failed qtree_decompress jumps to cleanup with tree_initialized still
\* false, so nothing of the tree is freed; after a successful decode and
\* qtree_to_pgm, cleanup frees the tree from its root (heap index 1).
CodecDecompressCleanup ==
    /\ \/ pc = "decoded" /\ dstatus # QTREE_SUCCESS
       \/ pc = "rendered"
    /\ LET tree_initialized == dstatus = QTREE_SUCCESS
       IN dmem' = [dmem EXCEPT !.freed =
                     IF tree_initialized
                     THEN dmem.freed \o free_quadtree_recursive(dmem.heap, 1)
                     ELSE dmem.freed]
    /\ pc' = "returned"
    /\ UNCHANGED <<pixels, size, tree, status, progress, alpha, nfilter,
                   before, file, damage, dtree, dstatus, dreader, pgm, file2,
                   bits, run, writer, breader, balloc, dstats, out>>

\* qtree_build when malloc call number fail_at fails (none fails when
\* fail_at is beyond the last call).  The remainder by total / 100 is
\* evaluated once the first node is allocated: as in QtreeBuild the call
\* traps or goes on when that is a division by zero.
QtreeBuildAlloc ==
    /\ pc = "ready"
    /\ \E fail_at \in 1..(build_allocs(tree.n_levels) + 1) :
       \E trap \in IF fail_at > 1
                      /\ calculate_total_nodes(tree.n_levels) \div 100 = 0
                   THEN {TRUE, FALSE} ELSE {FALSE} :
          IF trap
          THEN /\ pc' = "crashed"
               /\ balloc' = [NoAlloc EXCEPT !.fail_at = fail_at]
               /\ UNCHANGED <<tree, status>>
          ELSE LET returned(r) ==
                      /\ balloc' = [r.mem EXCEPT !.root = r.id]
                      /\ tree' = [tree EXCEPT !.root =
                                    IF r.id = NULL_NODE THEN NoTree
                                    ELSE heap_tree(r.mem.heap, r.id)]
                      /\ status' = IF r.id = NULL_NODE
                                   THEN QTREE_ERROR_MEMORY ELSE QTREE_SUCCESS
                      /\ pc' = IF r.id = NULL_NODE THEN "failed" ELSE "built"
               IN returned(build_recursive_alloc(pixels, size, tree.n_levels,
                              0, 0, [NoAlloc EXCEPT !.fail_at = fail_at]))
    /\ UNCHANGED <<pixels, size, progress, alpha, nfilter, before, file,
                   damage, dtree, dstatus, dreader, pgm, file2, bits, dmem,
                   run, writer, breader, dstats, out>>

AllocInit == \E level \in 0..MaxLevel : \E raster \in StreamImages(level) :
                 Start(level, raster)

AllocNext ==
    \/ QtreeInit
    \/ QtreeBuildAlloc

AllocSpec == AllocInit /\ [][AllocNext]_vars

(* ----------------- the bit writer and reader, call by call ----------- *)

\* number of write calls, and of read calls, in one run
MaxCalls == 3

\* arguments of compress_write_bits
WriteValues == {182, 2147483647}
WriteWidths == {1, 3, 8, 32}

\* the fwrite calls that fail, by number: none, the first, the second
FailSchedules == { {}, {1}, {2} }

\* the streams the reader is driven over
ReadFiles == { <<>>, <<165>>, <<255, 1>> }

\* widths asked of read_bits (above 8 it refuses)
ReadWidths == {1, 2, 8, 9}

\* what a call leaves in the writer variable: the new state, the bits
\* handed over while error was clear, and the state at the first call that
\* set error
WriterAfter(state, handed, flush) ==
    [state |-> state,
     appended |-> IF writer.state.error # 0 THEN writer.appended
                  ELSE writer.appended \o handed,
     calls |-> writer.calls + 1,
     flushes |-> writer.flushes + (IF flush THEN 1 ELSE 0),
     at_error |-> IF writer.at_error = <<>> /\ state.error # 0
                  THEN <<[state |-> state, calls |-> writer.calls + 1]>>
                  ELSE writer.at_error]

\* compress_write_bit(&state, bit)
WriteBit ==
    /\ writer.calls < MaxCalls /\ writer.flushes = 0 /\ breader.calls = 0
    /\ \E bit \in {0, 1} :
          writer' = WriterAfter(compress_write_bit(writer.state, bit),
                                <<bit>>, FALSE)
    /\ UNCHANGED <<pc, pixels, size, tree, status, progress, alpha, nfilter,
                   before, file, damage, dtree, dstatus, dreader, pgm, file2,
                   bits, dmem, run, breader, balloc, dstats, out>>

\* compress_write_bits(&state, value, num_bits)
WriteBits ==
    /\ writer.calls < MaxCalls /\ writer.flushes = 0 /\ breader.calls = 0
    /\ \E value \in WriteValues, num_bits \in WriteWidths :
          writer' = WriterAfter(
                        compress_write_bits_loop(writer.state, value, num_bits, 0),
                        [i \in 1..num_bits |-> Shr(value, num_bits - i) % 2],
                        FALSE)
    /\ UNCHANGED <<pc, pixels, size, tree, status, progress, alpha, nfilter,
                   before, file, damage, dtree, dstatus, dreader, pgm, file2,
                   bits, dmem, run, breader, balloc, dstats, out>>

\* compress_flush(&state), at most twice, after the last write
Flush ==
    /\ writer.flushes < 2 /\ breader.calls = 0
    /\ writer' = WriterAfter(compress_flush(writer.state), <<>>, TRUE)
    /\ UNCHANGED <<pc, pixels, size, tree, status, progress, alpha, nfilter,
                   before, file, damage, dtree, dstatus, dreader, pgm, file2,
                   bits, dmem, run, breader, balloc, dstats, out>>

\* what a call leaves in the reader variable
ReaderAfter(r, value) ==
    [breader EXCEPT !.reader = r, !.calls = @ + 1, !.last = value,
                    !.at_error = IF @ = <<>> /\ r.has_error
                                 THEN <<[reader |-> r,
                                         calls |-> breader.calls + 1]>>
                                 ELSE @]

\* read_bit(&reader)
ReadBit ==
    /\ breader.calls < MaxCalls
    /\ writer.calls = 0 \/ (writer.state.error # 0 /\ writer.flushes = 2)
    /\ LET returned(b) == breader' = ReaderAfter(b.reader, b.bit)
       IN returned(read_bit(breader.reader, breader.file))
    /\ UNCHANGED <<pc, pixels, size, tree, status, progress, alpha, nfilter,
                   before, file, damage, dtree, dstatus, dreader, pgm, file2,
                   bits, dmem, run, writer, balloc, dstats, out>>

\* read_bits(&reader, num_bits)
ReadBits ==
    /\ breader.calls < MaxCalls
    /\ writer.calls = 0 \/ (writer.state.error # 0 /\ writer.flushes = 2)
    /\ \E num_bits \in ReadWidths :
          LET returned(b) == breader' = ReaderAfter(b.reader, b.value)
          IN returned(read_bits(breader.reader, breader.file, num_bits))
    /\ UNCHANGED <<pc, pixels, size, tree, status, progress, alpha, nfilter,
                   before, file, damage, dtree, dstatus, dreader, pgm, file2,
                   bits, dmem, run, writer, balloc, dstats, out>>

\* a fresh writer on a file with some failure schedule, and a fresh reader
\* at the start of some stream; a run drives the writer or the reader, or
\* the reader after a writer that failed and was flushed
BitInit ==
    /\ pc = "start"
    /\ size = 1
    /\ pixels = <<0>>
    /\ tree = [root |-> NoTree, n_levels |-> 0, size |-> 0]
    /\ status = NoStatus
    /\ progress = [processed |-> 0, total |-> 0]
    /\ alpha = <<0, 1>>
    /\ nfilter = 0
    /\ before = NoTree
    /\ file = <<>>
    /\ damage = "none"
    /\ dtree = [root |-> NoTree, n_levels |-> 0]
    /\ dstatus = NoStatus
    /\ dreader = reader_init(0)
    /\ pgm = <<>>
    /\ file2 = <<>>
    /\ bits = <<>>
    /\ dmem = [heap |-> <<>>, freed |-> <<>>]
    /\ run = NoRun
    /\ \E fails \in FailSchedules :
          writer = [NoWriter EXCEPT !.state.file.fails = fails]
    /\ \E f \in ReadFiles : breader = [NoReader EXCEPT !.file = f]
    /\ balloc = NoAlloc
    /\ dstats = NoStats
    /\ out = NoOut

BitNext ==
    \/ WriteBit
    \/ WriteBits
    \/ Flush
    \/ ReadBit
    \/ ReadBits

BitSpec == BitInit /\ [][BitNext]_vars

(* --------------------- main.c, codec.c: one run ----------------------- *)

\* codec_status_t and pgm_status_t
CODEC_SUCCESS == "CODEC_SUCCESS"
CODEC_ERROR_INVALID_PARAM == "CODEC_ERROR_INVALID_PARAM"
CODEC_ERROR_FILE_IO == "CODEC_ERROR_FILE_IO"
CODEC_ERROR_MEMORY == "CODEC_ERROR_MEMORY"
CODEC_ERROR_FORMAT == "CODEC_ERROR_FORMAT"
PGM_SUCCESS == "PGM_SUCCESS"
PGM_ERROR_FILE == "PGM_ERROR_FILE"
PGM_ERROR_FORMAT == "PGM_ERROR_FORMAT"
PGM_ERROR_MEMORY == "PGM_ERROR_MEMORY"
PGM_ERROR_SIZE == "PGM_ERROR_SIZE"
PGM_ERROR_PARAM == "PGM_ERROR_PARAM"
EXIT_SUCCESS == 0
EXIT_FAILURE == 1

convert_qtree_status(st) ==
    CASE st = QTREE_SUCCESS -> CODEC_SUCCESS
      [] st = QTREE_ERROR_INVALID_PARAM -> CODEC_ERROR_INVALID_PARAM
      [] st = QTREE_ERROR_MEMORY -> CODEC_ERROR_MEMORY
      [] st = QTREE_ERROR_FORMAT -> CODEC_ERROR_FORMAT
      [] OTHER -> CODEC_ERROR_FORMAT

convert_pgm_status(st) ==
    CASE st = PGM_SUCCESS -> CODEC_SUCCESS
      [] st = PGM_ERROR_PARAM -> CODEC_ERROR_INVALID_PARAM
      [] st = PGM_ERROR_FILE -> CODEC_ERROR_FILE_IO
      [] st = PGM_ERROR_FORMAT -> CODEC_ERROR_FORMAT
      [] st = PGM_ERROR_MEMORY -> CODEC_ERROR_MEMORY
      [] st = PGM_ERROR_SIZE -> CODEC_ERROR_FORMAT
      [] OTHER -> CODEC_ERROR_FORMAT

\* What the calls of one run can return: values on the return statements
\* of each callee (fopen: TRUE for a stream, FALSE for NULL).
CallResults ==
    [pgm_read : {PGM_SUCCESS, PGM_ERROR_FILE, PGM_ERROR_FORMAT,
                 PGM_ERROR_MEMORY, PGM_ERROR_SIZE},
     qtree_init : {QTREE_SUCCESS, QTREE_ERROR_INVALID_PARAM},
     qtree_build : {QTREE_SUCCESS, QTREE_ERROR_MEMORY},
     apply_lossy : {QTREE_SUCCESS, QTREE_ERROR_INVALID_PARAM},
     fopen : BOOLEAN,
     compress : {QTREE_SUCCESS, QTREE_ERROR_FORMAT},
     qtree_decompress : {QTREE_SUCCESS, QTREE_ERROR_MEMORY, QTREE_ERROR_FORMAT},
     qtree_to_pgm : {QTREE_SUCCESS, QTREE_ERROR_MEMORY},
     pgm_write : {PGM_SUCCESS, PGM_ERROR_FILE},
     generate_grid : {QTREE_SUCCESS, QTREE_ERROR_MEMORY, QTREE_ERROR_FORMAT}]

\* the tail of both codec functions: the grid is generated when asked
\* for and the value qtree_generate_grid returns is dropped
codec_grid(generate_grid, res) ==
    [status |-> CODEC_SUCCESS,
     failed |-> IF generate_grid /\ res.generate_grid # QTREE_SUCCESS
                THEN {"generate_grid"} ELSE {}]

\* codec_compress: the status it returns and the step that failed
codec_compress(generate_grid, lossy, res) ==
    IF res.pgm_read # PGM_SUCCESS
    THEN [status |-> convert_pgm_status(res.pgm_read), failed |-> {"pgm_read"}]
    ELSE IF res.qtree_init # QTREE_SUCCESS
    THEN [status |-> convert_qtree_status(res.qtree_init),
          failed |-> {"qtree_init"}]
    ELSE IF res.qtree_build # QTREE_SUCCESS
    THEN [status |-> convert_qtree_status(res.qtree_build),
          failed |-> {"qtree_build"}]
    ELSE IF lossy /\ res.apply_lossy # QTREE_SUCCESS
    THEN [status |-> convert_qtree_status(res.apply_lossy),
          failed |-> {"apply_lossy_compression"}]
    ELSE IF ~res.fopen
    THEN [status |-> CODEC_ERROR_FILE_IO, failed |-> {"fopen"}]
    ELSE IF res.compress # QTREE_SUCCESS
    THEN [status |-> convert_qtree_status(res.compress),
          failed |-> {"compress"}]
    ELSE codec_grid(generate_grid, res)

\* codec_decompress: the status it returns and the step that failed
codec_decompress(generate_grid, res) ==
    IF ~res.fopen
    THEN [status |-> CODEC_ERROR_FILE_IO, failed |-> {"fopen"}]
    ELSE IF res.qtree_decompress # QTREE_SUCCESS
    THEN [status |-> convert_qtree_status(res.qtree_decompress),
          failed |-> {"qtree_decompress"}]
    ELSE IF res.qtree_to_pgm # QTREE_SUCCESS
    THEN [status |-> convert_qtree_status(res.qtree_to_pgm),
          failed |-> {"qtree_to_pgm"}]
    ELSE IF res.pgm_write # PGM_SUCCESS
    THEN [status |-> convert_pgm_status(res.pgm_write),
          failed |-> {"pgm_write"}]
    ELSE codec_grid(generate_grid, res)

\* main up to the call of the codec: cli_parse_arguments either rejects
\* the command line (main returns EXIT_FAILURE) or fills the config:
\* compress or decompress, -g or not, alpha > 1 or not
MainParse ==
    /\ run.pc = "main"
    /\ \/ run' = [run EXCEPT !.pc = "exited", !.failed = {"arguments"},
                              !.exit = EXIT_FAILURE]
       \/ \E c \in BOOLEAN, g \in BOOLEAN, l \in BOOLEAN :
             run' = [run EXCEPT !.pc = "parsed", !.compress = c,
                                !.generate_grid = g, !.lossy = l]
    /\ UNCHANGED <<pc, pixels, size, tree, status, progress, alpha, nfilter,
                   before, file, damage, dtree, dstatus, dreader, pgm, file2,
                   bits, dmem, writer, breader, balloc, dstats, out>>

\* result = codec_compress(&config)
CodecCompress ==
    /\ run.pc = "parsed" /\ run.compress
    /\ \E res \in CallResults :
          LET returned(r) == run' = [run EXCEPT !.pc = "codec_returned",
                                               !.status = r.status,
                                               !.failed = r.failed]
          IN returned(codec_compress(run.generate_grid, run.lossy, res))
    /\ UNCHANGED <<pc, pixels, size, tree, status, progress, alpha, nfilter,
                   before, file, damage, dtree, dstatus, dreader, pgm, file2,
                   bits, dmem, writer, breader, balloc, dstats, out>>

\* result = codec_decompress(&config)
CodecDecompress ==
    /\ run.pc = "parsed" /\ ~run.compress
    /\ \E res \in CallResults :
          LET returned(r) == run' = [run EXCEPT !.pc = "codec_returned",
                                               !.status = r.status,
                                               !.failed = r.failed]
          IN returned(codec_decompress(run.generate_grid, res))
    /\ UNCHANGED <<pc, pixels, size, tree, status, progress, alpha, nfilter,
                   before, file, damage, dtree, dstatus, dreader, pgm, file2,
                   bits, dmem, writer, breader, balloc, dstats, out>>

\* the rest of main: status = EXIT_FAILURE when result != CODEC_SUCCESS
MainReturn ==
    /\ run.pc = "codec_returned"
    /\ run' = [run EXCEPT !.pc = "exited",
                           !.exit = IF run.status # CODEC_SUCCESS
                                    THEN EXIT_FAILURE ELSE EXIT_SUCCESS]
    /\ UNCHANGED <<pc, pixels, size, tree, status, progress, alpha, nfilter,
                   before, file, damage, dtree, dstatus, dreader, pgm, file2,
                   bits, dmem, writer, breader, balloc, dstats, out>>

(* ------------------ codec.c: codec_compress step by step -------------- *)

\* content the output file can hold before the run
OldOutput == <<79, 76, 68>>

\* a step succeeded / failed (goto cleanup, or the return of compress
\* followed by goto cleanup)
step_done(o, step) ==
    [o EXCEPT !.pc = step_after(step), !.done = Append(@, step)]

step_failed(o, step) == [o EXCEPT !.pc = "cleanup", !.failed = step]

\* pgm_read(config->input_file, &pgm)
OutPgmRead ==
    /\ out.pc = "pgm_read"
    /\ \/ out' = step_done(out, "pgm_read")
       \/ out' = step_failed(out, "pgm_read")
    /\ UNCHANGED <<pc, pixels, size, tree, status, progress, alpha, nfilter,
                   before, file, damage, dtree, dstatus, dreader, pgm, file2,
                   bits, dmem, run, writer, breader, balloc, dstats>>

\* qtree_init(&tree, pgm.size): fails when the side is no power of two
OutQtreeInit ==
    /\ out.pc = "qtree_init"
    /\ IF IsPow2(size)
       THEN /\ tree' = [root |-> NoTree, n_levels |-> log2(size),
                        size |-> size]
            /\ out' = step_done(out, "qtree_init")
       ELSE /\ out' = step_failed(out, "qtree_init")
            /\ UNCHANGED tree
    /\ UNCHANGED <<pc, pixels, size, status, progress, alpha, nfilter,
                   before, file, damage, dtree, dstatus, dreader, pgm, file2,
                   bits, dmem, run, writer, breader, balloc, dstats>>

\* qtree_build(&tree, pgm.pixels, pgm.size, ...): it returns
\* QTREE_ERROR_MEMORY when a malloc fails and, as in QtreeBuild, can trap
\* on the remainder by total / 100, which ends the process
OutQtreeBuild ==
    /\ out.pc = "qtree_build"
    /\ \/ /\ tree' = [tree EXCEPT !.root =
                        build_recursive(pixels, size, tree.n_levels, 0, 0)]
          /\ out' = step_done(out, "qtree_build")
       \/ /\ out' = step_failed(out, "qtree_build")
          /\ UNCHANGED tree
       \/ /\ calculate_total_nodes(tree.n_levels) \div 100 = 0
          /\ out' = [out EXCEPT !.pc = "crashed", !.failed = "qtree_build"]
          /\ UNCHANGED tree
    /\ UNCHANGED <<pc, pixels, size, status, progress, alpha, nfilter,
                   before, file, damage, dtree, dstatus, dreader, pgm, file2,
                   bits, dmem, run, writer, breader, balloc, dstats>>

\* if (config->alpha > 1.0f) apply_lossy_compression(&tree, config->alpha):
\* with a root and alpha > 1 the call returns QTREE_SUCCESS
OutApplyLossy ==
    /\ out.pc = "apply_lossy_compression"
    /\ IF out.lossy
       THEN \E a \in Alphas :
               /\ alpha' = a
               /\ tree' = [tree EXCEPT !.root =
                     apply_lossy_compression(tree.root, tree.n_levels, a)]
       ELSE UNCHANGED <<alpha, tree>>
    /\ out' = step_done(out, "apply_lossy_compression")
    /\ UNCHANGED <<pc, pixels, size, status, progress, nfilter, before, file,
                   damage, dtree, dstatus, dreader, pgm, file2, bits, dmem,
                   run, writer, breader, balloc, dstats>>

\* output = fopen(config->output_file, "wb"): the file is truncated when
\* the call succeeds
OutFopen ==
    /\ out.pc = "fopen"
    /\ \/ out' = [step_done(out, "fopen") EXCEPT !.opened = TRUE,
                                                 !.output = <<>>]
       \/ out' = step_failed(out, "fopen")
    /\ UNCHANGED <<pc, pixels, size, tree, status, progress, alpha, nfilter,
                   before, file, damage, dtree, dstatus, dreader, pgm, file2,
                   bits, dmem, run, writer, breader, balloc, dstats>>

\* compress: temp_buffer = tmpfile()
OutTmpfile ==
    /\ out.pc = "tmpfile"
    /\ \/ out' = step_done(out, "tmpfile")
       \/ out' = step_failed(out, "tmpfile")
    /\ UNCHANGED <<pc, pixels, size, tree, status, progress, alpha, nfilter,
                   before, file, damage, dtree, dstatus, dreader, pgm, file2,
                   bits, dmem, run, writer, breader, balloc, dstats>>

\* compress: compress_tree_data(&temp_state, tree).  Every byte goes to
\* the temporary buffer through one fwrite; when the fwrite of byte k
\* fails the writer keeps its error, nothing more is written and the call
\* returns false.
OutCompressTreeData ==
    /\ out.pc = "compress_tree_data"
    /\ LET body == written_bytes(compress_tree_data(tree.n_levels, tree.root))
       IN \/ out' = [step_done(out, "compress_tree_data")
                        EXCEPT !.temp = body]
          \/ \E k \in 1..Len(body) :
                out' = [step_failed(out, "compress_tree_data")
                           EXCEPT !.temp = SubSeq(body, 1, k - 1)]
    /\ UNCHANGED <<pc, pixels, size, tree, status, progress, alpha, nfilter,
                   before, file, damage, dtree, dstatus, dreader, pgm, file2,
                   bits, dmem, run, writer, breader, balloc, dstats>>

\* compress: write_header(output_file, tree, compression_rate); a write
\* can fail after k bytes of the header
OutWriteHeader ==
    /\ out.pc = "write_header"
    /\ LET header == write_header(tree.n_levels)
       IN \/ out' = [step_done(out, "write_header")
                        EXCEPT !.output = @ \o header,
                               !.written = @ \o header]
          \/ \E k \in 0..(Len(header) - 1) :
                out' = [step_failed(out, "write_header")
                           EXCEPT !.output = @ \o SubSeq(header, 1, k),
                                  !.written = @ \o SubSeq(header, 1, k)]
    /\ UNCHANGED <<pc, pixels, size, tree, status, progress, alpha, nfilter,
                   before, file, damage, dtree, dstatus, dreader, pgm, file2,
                   bits, dmem, run, writer, breader, balloc, dstats>>

\* compress: the temporary buffer is rewound and copied to the output
OutCopy ==
    /\ out.pc = "copy"
    /\ \/ out' = [step_done(out, "copy")
                     EXCEPT !.output = @ \o out.temp,
                            !.written = @ \o out.temp]
       \/ /\ out.temp # <<>>
          /\ out' = step_failed(out, "copy")
    /\ UNCHANGED <<pc, pixels, size, tree, status, progress, alpha, nfilter,
                   before, file, damage, dtree, dstatus, dreader, pgm, file2,
                   bits, dmem, run, writer, breader, balloc, dstats>>

\* cleanup: the output is closed and codec_compress returns; file is the
\* output file as the run leaves it
OutCleanup ==
    /\ out.pc = "cleanup"
    /\ out' = [out EXCEPT !.pc = "returned"]
    /\ file' = out.output
    /\ UNCHANGED <<pc, pixels, size, tree, status, progress, alpha, nfilter,
                   before, damage, dtree, dstatus, dreader, pgm, file2,
                   bits, dmem, run, writer, breader, balloc, dstats>>

\* codec_compress is entered for some input raster, with or without the
\* lossy filter, the output file holding some earlier content
OutputInit ==
    /\ \E level \in 0..MaxLevel : \E raster \in StreamImages(level) :
          /\ size = Pow(2, level)
          /\ pixels = raster
    /\ pc = "start"
    /\ tree = [root |-> NoTree, n_levels |-> 0, size |-> 0]
    /\ status = NoStatus
    /\ progress = [processed |-> 0, total |-> 0]
    /\ alpha = <<0, 1>>
    /\ nfilter = 0
    /\ before = NoTree
    /\ file = OldOutput
    /\ damage = "none"
    /\ dtree = [root |-> NoTree, n_levels |-> 0]
    /\ dstatus = NoStatus
    /\ dreader = reader_init(0)
    /\ pgm = <<>>
    /\ file2 = <<>>
    /\ bits = <<>>
    /\ dmem = [heap |-> <<>>, freed |-> <<>>]
    /\ run = NoRun
    /\ writer = NoWriter
    /\ breader = NoReader
    /\ balloc = NoAlloc
    /\ dstats = NoStats
    /\ \E l \in BOOLEAN :
          out = [NoOut EXCEPT !.pc = codec_compress_steps[1], !.lossy = l,
                              !.output = OldOutput]

\* main is started on some command line; the codec state is not used
MainInit ==
    /\ pc = "start"
    /\ size = 1
    /\ pixels = <<0>>
    /\ tree = [root |-> NoTree, n_levels |-> 0, size |-> 0]
    /\ status = NoStatus
    /\ progress = [processed |-> 0, total |-> 0]
    /\ alpha = <<0, 1>>
    /\ nfilter = 0
    /\ before = NoTree
    /\ file = <<>>
    /\ damage = "none"
    /\ dtree = [root |-> NoTree, n_levels |-> 0]
    /\ dstatus = NoStatus
    /\ dreader = reader_init(0)
    /\ pgm = <<>>
    /\ file2 = <<>>
    /\ bits = <<>>
    /\ dmem = [heap |-> <<>>, freed |-> <<>>]
    /\ run = [NoRun EXCEPT !.pc = "main"]
    /\ writer = NoWriter
    /\ breader = NoReader
    /\ balloc = NoAlloc
    /\ dstats = NoStats
    /\ out = NoOut

MainNext ==
    \/ MainParse
    \/ CodecCompress
    \/ CodecDecompress
    \/ MainReturn

MainSpec == MainInit /\ [][MainNext]_vars

Next ==
    \/ QtreeInit
    \/ QtreeBuild
    \/ ApplyLossy
    \/ Compress
    \/ Decompress
    \/ ToPgm
    \/ Recompress
    \/ CodecDecompressCleanup

Spec == Init /\ [][Next]_vars

\* the pipeline on the 4x4 inputs with pixels in 99..101
PromoInit == \E raster \in PromoImages : Start(2, raster)

PromoSpec == PromoInit /\ [][Next]_vars

\* the pipeline on every 2x2 raster over FourthBytes and on the largest
\* tiled rasters
FourthInit ==
    \/ \E raster \in [1..4 -> FourthBytes] : Start(1, raster)
    \/ \E raster \in Images(MaxLevel) : Start(MaxLevel, raster)

FourthSpec == FourthInit /\ [][Next]_vars

\* the pipeline on the 8x8 inputs tiled from LossyBlocks
LossyInit == \E raster \in LossyImages : Start(3, raster)

LossySpec == LossyInit /\ [][Next]_vars

StreamNext ==
    \/ QtreeInit
    \/ QtreeBuild
    \/ Compress
    \/ CorruptMagic
    \/ CorruptDepth
    \/ Truncate
    \/ Decompress
    \/ CodecDecompressCleanup

StreamSpec == StreamInit /\ [][StreamNext]_vars

\* codec_compress step by step
OutputNext ==
    \/ OutPgmRead
    \/ OutQtreeInit
    \/ OutQtreeBuild
    \/ OutApplyLossy
    \/ OutFopen
    \/ OutTmpfile
    \/ OutCompressTreeData
    \/ OutWriteHeader
    \/ OutCopy
    \/ OutCleanup

OutputSpec == OutputInit /\ [][OutputNext]_vars

\* streams of every accepted depth
DepthNext ==
    \/ QtreeInit
    \/ QtreeBuild
    \/ Compress
    \/ SetDepth
    \/ Decompress
    \/ CodecDecompressCleanup

DepthSpec == StreamInit /\ [][DepthNext]_vars

\* streams with other header lines
HeaderNext ==
    \/ QtreeInit
    \/ QtreeBuild
    \/ Compress
    \/ SetHeaderLines
    \/ Decompress
    \/ CodecDecompressCleanup

HeaderSpec == StreamInit /\ [][HeaderNext]_vars


(* ------------------------- auxiliary notions -------------------------- *)

\* every node of the tree under node, with its depth and the square region
\* of the raster it stands for (origin row, col and side)
RECURSIVE Regions(_, _, _, _, _)
Regions(node, depth, row, col, side) ==
    {[node |-> node, depth |-> depth, row |-> row, col |-> col, side |-> side]}
    \cup IF node.children = <<>> THEN {}
         ELSE UNION { Regions(node.children[q + 1], depth + 1,
                              child_row(q, row, side \div 2),
                              child_col(q, col, side \div 2), side \div 2)
                      : q \in 0..3 }

TreeRegions == Regions(tree.root, 0, 0, 0, size)

\* the input pixels of a region
RegionPixels(r) ==
    { pixels[i * size + j + 1] : i \in r.row..(r.row + r.side - 1),
                                 j \in r.col..(r.col + r.side - 1) }

\* a tree without the variances, which are scratch values of the filter
RECURSIVE Shape(_)
Shape(node) ==
    [m |-> node.m, e |-> node.e, u |-> node.u,
     children |-> [k \in 1..Len(node.children) |-> Shape(node.children[k])]]

\* the bytes of a stream from the depth byte on
DepthAndBody(f) == SubSeq(f, HeaderLen, Len(f))

HasTree == pc \in {"built", "compressed", "decoded", "rendered", "recompressed"}

(* ------------------------------ claims -------------------------------- *)

\* C1: lossless round trip.  Without the lossy filter, the stream compress
\* writes from the built tree is decoded successfully, and the raster
\* qtree_to_pgm renders from the decoded tree equals the input raster.
C1_LosslessRoundTrip ==
    /\ (pc = "decoded" /\ nfilter = 0) => dstatus = QTREE_SUCCESS
    /\ (pc = "rendered" /\ nfilter = 0) => pgm = pixels

C1_Witness ==
    /\ pc = "rendered" /\ nfilter = 0 /\ size = 4
    /\ tree.root.e # 0
    /\ \E k \in 1..4 : tree.root.children[k].e # 0
    /\ pgm = pixels

\* C2: for every power-of-two side, qtree_init then qtree_build terminates
\* normally with QTREE_SUCCESS, a root, and leaves no deeper than
\* n_levels; the progress arithmetic never faults.
C2_BuildAlwaysSucceeds ==
    pc \notin {"start", "ready"} =>
        /\ pc # "crashed"
        /\ status = QTREE_SUCCESS
        /\ \A r \in TreeRegions : r.depth <= tree.n_levels

\* C3: parent-sum identity.  After qtree_build, and after any number of
\* apply_lossy_compression calls, every node that has children satisfies
\* m0+m1+m2+m3 = 4*m + e with 0 <= e <= 3.
C3_ParentSum ==
    HasTree =>
        \A r \in TreeRegions :
            r.node.children # <<>> =>
                /\ r.node.children[1].m + r.node.children[2].m
                   + r.node.children[3].m + r.node.children[4].m
                   = 4 * r.node.m + r.node.e
                /\ r.node.e \in 0..3

C3_Witness ==
    /\ pc = "built" /\ nfilter >= 1
    /\ tree.root.children # <<>>
    /\ tree.root.e = 2
    /\ \E k \in 1..4 : tree.root.children[k] # before.children[k]

\* C4: after qtree_build, a node is uniform exactly when all input pixels
\* of its region have one value; a uniform node has that value as m, and
\* e = 0.
C4_UniformIffConstant ==
    (pc = "built" /\ nfilter = 0) =>
        \A r \in TreeRegions :
            /\ r.node.u = 1 <=> Cardinality(RegionPixels(r)) = 1
            /\ r.node.u = 1 => /\ RegionPixels(r) = {r.node.m}
                               /\ r.node.e = 0

C4_Witness ==
    /\ pc = "built" /\ nfilter = 0 /\ size = 4
    /\ tree.root.u = 0 /\ tree.root.e = 0
    /\ tree.root.children[1].u = 1
    /\ tree.root.children[2].u = 0 /\ tree.root.children[2].e = 0

\* C5: after apply_lossy_compression, every node with u = 1 has e = 0 and
\* no children.
C5_FilteredUniformIsLeaf ==
    (HasTree /\ nfilter >= 1) =>
        \A r \in TreeRegions :
            r.node.u = 1 => r.node.e = 0 /\ r.node.children = <<>>

\* C6: encode/decode bijection.  A stream written by compress (from a
\* built, optionally filtered tree) is decoded successfully, and compress
\* of the decoded tree writes the same depth byte and body.
C6_EncodeDecodeBijection ==
    /\ pc = "decoded" => dstatus = QTREE_SUCCESS
    /\ pc = "recompressed" => DepthAndBody(file2) = DepthAndBody(file)

C6_Witness ==
    /\ pc = "recompressed" /\ nfilter >= 1
    /\ Len(file) > HeaderLen + 4
    /\ DepthAndBody(file2) = DepthAndBody(file)

\* C7: idempotent filter.  A second apply_lossy_compression with the same
\* alpha leaves m, e, u and the children of every node as they were.
C7_FilterIdempotent ==
    nfilter >= 2 => Shape(tree.root) = Shape(before)


\* C8: a stream with a valid magic line and two comment lines whose depth
\* byte is 0 or above 32 is rejected with QTREE_ERROR_FORMAT.
C8_BadDepthRejected ==
    (pc = "decoded" /\ damage = "depth") => dstatus = QTREE_ERROR_FORMAT

\* C9: a stream whose first two bytes are not "Q1" is rejected with
\* QTREE_ERROR_FORMAT before the reader pulls any byte of the stream.
C9_BadMagicRejected ==
    (pc = "decoded" /\ damage = "magic") =>
        /\ dstatus = QTREE_ERROR_FORMAT
        /\ dreader.fpos = 2
        /\ dreader.position = 8

\* C10: truncation.  Every strict byte prefix of a stream written by
\* compress that still holds the whole header is rejected with
\* QTREE_ERROR_FORMAT.
C10_TruncatedRejected ==
    (pc = "decoded" /\ damage = "truncated") => dstatus = QTREE_ERROR_FORMAT

\* the stream ends right after the byte holding the last bit of pass 0 of
\* a non-uniform root
C10_Witness ==
    /\ pc = "decoded" /\ damage = "truncated"
    /\ tree.n_levels = 2 /\ tree.root.u = 0
    /\ Len(file) = HeaderLen + 2
    /\ dstatus = QTREE_ERROR_FORMAT

\* the decoder nodes reachable from tree->root (heap index 1) through
\* child pointers, freed or not
RECURSIVE Reachable(_, _)
Reachable(heap, id) ==
    IF id = NULL_NODE THEN {}
    ELSE {id} \cup UNION { Reachable(heap, heap[id].children[k]) : k \in 1..4 }

\* how many times the id was freed
TimesFreed(id) == Cardinality({ k \in 1..Len(dmem.freed) : dmem.freed[k] = id })

\* C11: when decoding failed, by the time codec_decompress returns every
\* node allocated during the decode has been freed exactly once, and no
\* node reachable from tree->root holds a pointer to a freed child.
C11_FailedDecodeFreesNodes ==
    (pc = "returned" /\ dstatus # QTREE_SUCCESS) =>
        /\ \A id \in 1..Len(dmem.heap) : TimesFreed(id) = 1
        /\ \A id \in Reachable(dmem.heap, 1) :
              TimesFreed(id) = 0 =>
                 \A k \in 1..4 : dmem.heap[id].children[k] # NULL_NODE =>
                                    TimesFreed(dmem.heap[id].children[k]) = 0

\* C12: the exit code is 0 only if no step of the requested operation
\* failed (argument validation, raster reading, build, filter, encoding,
\* decoding, raster writing, writing the grid raster asked for with -g).
C12_ExitZeroOnlyOnSuccess ==
    (run.pc = "exited" /\ run.exit = EXIT_SUCCESS) => run.failed = {}

\* the 8 bits of a byte, most significant first
Byte8(c) == <<(c \div 128) % 2, (c \div 64) % 2, (c \div 32) % 2,
              (c \div 16) % 2, (c \div 8) % 2, (c \div 4) % 2,
              (c \div 2) % 2, c % 2>>

ConstantInput == \A k \in 1..Len(pixels) : pixels[k] = pixels[1]

\* C13: for a constant image of side >= 2 and value c the encoder writes
\* exactly 11 body bits, the 8 bits of c, then e = 00, then u = 1, and the
\* flushed body is 2 bytes.
C13_ConstantImageBody ==
    (pc = "compressed" /\ size >= 2 /\ ConstantInput) =>
        /\ bits = Byte8(pixels[1]) \o <<0, 0>> \o <<1>>
        /\ Len(bits) = 11
        /\ Len(file) = HeaderLen + 2

C13_Witness ==
    /\ pc = "compressed" /\ size = 4 /\ ConstantInput /\ pixels[1] = 7
    /\ Len(bits) = 11

\* C14 as stated: for the input pixels [7,7,7,7] the body after the depth
\* byte is exactly the two bytes 0x07, 0xC0.
C14_Uniform2x2Stated ==
    (pc = "compressed" /\ pixels = <<7, 7, 7, 7>>) =>
        SubSeq(file, HeaderLen + 1, Len(file)) = <<7, 192>>

\* C14 amended: for the input pixels [7,7,7,7] the body after the depth
\* byte is exactly the two bytes 0x07, 0x20: the bits 00000111, 00, 1 and
\* five zero pad bits, most significant bit first.
C14_Uniform2x2Bytes ==
    (pc = "compressed" /\ pixels = <<7, 7, 7, 7>>) =>
        SubSeq(file, HeaderLen + 1, Len(file)) = <<7, 32>>

C14_Witness ==
    /\ pc = "compressed" /\ pixels = <<7, 7, 7, 7>> /\ nfilter = 0
    /\ Len(file) = HeaderLen + 2 /\ file[HeaderLen + 2] = 32

\* C15 as stated: for the input pixels [1,2,3,4] the body is the root's m
\* (00000010), e = 10, a u bit equal to 0, then the means 1, 2, 4 of TL,
\* TR, BR: 35 bits.
C15_Residual2x2Stated ==
    (pc = "compressed" /\ pixels = <<1, 2, 3, 4>> /\ nfilter = 0) =>
        /\ bits = Byte8(2) \o <<1, 0>> \o <<0>>
                   \o Byte8(1) \o Byte8(2) \o Byte8(4)
        /\ Len(bits) = 35

\* C15 amended: for the input pixels [1,2,3,4] the body is the root's m
\* (00000010), e = 10 and, e being nonzero, no u bit, then the means 1, 2,
\* 4 of TL, TR, BR with BL's mean not emitted: 34 bits.
C15_Residual2x2 ==
    (pc = "compressed" /\ pixels = <<1, 2, 3, 4>> /\ nfilter = 0) =>
        /\ bits = Byte8(2) \o <<1, 0>> \o Byte8(1) \o Byte8(2) \o Byte8(4)
        /\ Len(bits) = 34

C15_Witness ==
    /\ pc = "compressed" /\ pixels = <<1, 2, 3, 4>> /\ nfilter = 0
    /\ tree.root.e = 2 /\ tree.root.u = 0
    /\ Len(bits) = 34

\* C16: for every 4x4 input with all pixels in {99, 100, 101}, one call of
\* apply_lossy_compression with alpha = 4 leaves the root uniform with the
\* m of the build, the body compress writes is the 11 bits m, e = 00, u = 1,
\* and the decoded, rendered image is constant m.
C16_LossyPromotion ==
    (/\ size = 4
     /\ \A k \in 1..Len(pixels) : pixels[k] \in 99..101
     /\ nfilter = 1
     /\ alpha = <<4, 1>>)
    => /\ pc = "built" =>
            /\ tree.root.u = 1
            /\ tree.root.m = before.m
       /\ pc = "compressed" =>
            bits = Byte8(tree.root.m) \o <<0, 0, 1>>
       /\ pc = "rendered" =>
            pgm = [k \in 1..(size * size) |-> before.m]

(* ------------- the body, pass by pass (reference for C17-C19) ---------- *)

\* the sequences of s, one after the other
RECURSIVE Concat(_)
Concat(s) == IF s = <<>> THEN <<>> ELSE Head(s) \o Concat(Tail(s))

\* The nodes pass k visits, breadth first: pass 0 is the root; pass k + 1
\* takes the nodes of pass k in order and, for each one with u = 0, its
\* children TL, TR, BR, BL (slots 0..3).  Each entry is [node, slot, path],
\* path being the slots from the root down to the node.
RECURSIVE PassNodes(_, _)
PassNodes(root, k) ==
    IF k = 0 THEN << [node |-> root, slot |-> 0, path |-> <<>>] >>
    ELSE LET under(prev) ==
                 Concat([i \in 1..Len(prev) |->
                     IF prev[i].node.u = 0 /\ prev[i].node.children # <<>>
                     THEN [q \in 1..4 |->
                              [node |-> prev[i].node.children[q],
                               slot |-> q - 1,
                               path |-> Append(prev[i].path, q - 1)]]
                     ELSE <<>>])
         IN under(PassNodes(root, k - 1))

\* the sibling groups pass k visits: the nodes of pass k - 1 it descends into
Groups(root, k) ==
    LET count(prev) == Cardinality({ i \in 1..Len(prev) :
                           prev[i].node.u = 0 /\ prev[i].node.children # <<>> })
    IN count(PassNodes(root, k - 1))

\* number of attribute bits (e, then u when e = 0) of a node of depth k
AttrLen(node, k, n_levels) ==
    IF k = n_levels THEN 0 ELSE IF node.e = 0 THEN 3 ELSE 2

\* sum of f[i] over the indices of the sequence f
RECURSIVE SumSeq(_)
SumSeq(f) == IF f = <<>> THEN 0 ELSE Head(f) + SumSeq(Tail(f))

PassAttrLen(root, k, n_levels) ==
    LET total(p) == SumSeq([i \in 1..Len(p) |-> AttrLen(p[i].node, k, n_levels)])
    IN total(PassNodes(root, k))

\* C17: fourth-child suppression.  Pass 0 starts with the 8-bit mean of the
\* root; in every pass k >= 1 the bits written are, besides the attribute
\* bits of the visited nodes, exactly three 8-bit means per visited group of
\* four siblings: the means of slots TL, TR, BR and none for BL; the means
\* written in the pass are those of the non-BL nodes, in order.
C17_FourthMeanSuppressed ==
    pc = "compressed" =>
        /\ SubSeq(bits, 1, 8) = Byte8(tree.root.m)
        /\ \A k \in 1..tree.n_levels :
             LET holds(written, visited) ==
                   /\ Len(written) = 8 * 3 * Groups(tree.root, k)
                                     + PassAttrLen(tree.root, k, tree.n_levels)
                   /\ Len(visited) = 4 * Groups(tree.root, k)
                   /\ \A i \in 1..Len(visited) :
                        LET at == 8 * (i - 1 - ((i - 1) \div 4))
                                  + SumSeq([j \in 1..(i - 1) |->
                                       AttrLen(visited[j].node, k, tree.n_levels)])
                        IN visited[i].slot # 3 =>
                             SubSeq(written, at + 1, at + 8)
                                = Byte8(visited[i].node.m)
             IN holds(compress_tree_level(tree.n_levels, tree.root, 0, k, FALSE),
                      PassNodes(tree.root, k))
        /\ Len(bits) = 8 + PassAttrLen(tree.root, 0, tree.n_levels)
                       + SumSeq([k \in 1..tree.n_levels |->
                             8 * 3 * Groups(tree.root, k)
                             + PassAttrLen(tree.root, k, tree.n_levels)])

\* two passes below the root, with a group under a non-uniform node
C17_Witness ==
    /\ pc = "compressed"
    /\ tree.n_levels = 2
    /\ Groups(tree.root, 1) = 1
    /\ Groups(tree.root, 2) >= 2
    /\ Len(bits) > 8 + 2 + 3 * 8 * 3

\* the fields of a visited node of depth k, as the format lays them out:
\* m on 8 bits unless the node is a BL child, then, above the last level,
\* e on 2 bits and u on 1 bit when e = 0
FieldBits(v, k, n_levels) ==
    (IF k >= 1 /\ v.slot = 3 THEN <<>> ELSE Byte8(v.node.m))
    \o (IF k = n_levels THEN <<>>
        ELSE IF v.node.e = 0 THEN <<v.node.e \div 2, v.node.e % 2, v.node.u>>
        ELSE <<v.node.e \div 2, v.node.e % 2>>)

PassFields(root, k, n_levels) ==
    LET fields(p) == Concat([i \in 1..Len(p) |-> FieldBits(p[i], k, n_levels)])
    IN fields(PassNodes(root, k))

\* number of body bits the reader has taken from the stream
BitsRead(reader) == 8 * (reader.fpos - HeaderLen) - (8 - reader.position)

\* e and u of the nodes of pass k, in order
PassAttributes(root, k) ==
    LET attrs(p) == [i \in 1..Len(p) |-> <<p[i].node.e, p[i].node.u>>]
    IN attrs(PassNodes(root, k))

\* C18: attribute bits.  The body holds, for every visited node of depth
\* k < n_levels, e on exactly 2 bits followed by the u bit if and only if
\* e = 0, and no e or u for a node of depth n_levels.  The decoder takes the
\* same fields under the same conditions: it consumes exactly the bits
\* written, every decoded node has the e and u of the node written, u = 0
\* where e # 0, and e = 0, u = 1 at depth n_levels.
C18_AttributeBits ==
    /\ pc = "compressed" =>
          bits = Concat([j \in 1..(tree.n_levels + 1) |->
                           PassFields(tree.root, j - 1, tree.n_levels)])
    /\ (pc = "decoded" /\ dstatus = QTREE_SUCCESS) =>
          /\ BitsRead(dreader) = Len(bits)
          /\ \A k \in 0..tree.n_levels :
                LET same(d) ==
                      /\ d = PassAttributes(tree.root, k)
                      /\ \A i \in 1..Len(d) :
                            /\ d[i][1] # 0 => d[i][2] = 0
                            /\ k = tree.n_levels => d[i] = <<0, 1>>
                IN same(PassAttributes(dtree.root, k))

\* a decoded 4x4 tree with a residual above the leaves and a node with
\* e = 0, u = 0
C18_Witness ==
    /\ pc = "decoded" /\ dstatus = QTREE_SUCCESS
    /\ tree.n_levels = 2
    /\ BitsRead(dreader) = Len(bits)
    /\ \E i \in 1..4 : PassAttributes(dtree.root, 1)[i][1] # 0
    /\ \E i \in 1..4 : PassAttributes(dtree.root, 1)[i] = <<0, 0>>
    /\ Len(PassAttributes(dtree.root, 2)) >= 8

\* what write_node writes for the nodes of pass k, in the order of the pass
PassWritten(root, k, n_levels) ==
    LET written(p) ==
            Concat([i \in 1..Len(p) |->
                write_node(p[i].node,
                           p[i].node.e = 0 /\ p[i].node.u = 1 /\ k = n_levels,
                           k >= 1 /\ p[i].slot = 3)])
    IN written(PassNodes(root, k))

\* the paths of the nodes under node (itself at path) that have a proper
\* ancestor with u = 1
RECURSIVE Pruned(_, _, _)
Pruned(node, path, below_uniform) ==
    (IF below_uniform THEN {path} ELSE {})
    \cup IF node.children = <<>> THEN {}
         ELSE UNION { Pruned(node.children[q], Append(path, q - 1),
                             below_uniform \/ node.u = 1) : q \in 1..4 }

\* C19: pass ordering and skipping.  The body is the bits of pass 0, then
\* pass 1, ..., then pass n_levels; inside a pass the nodes are written in
\* the order TL, TR, BR, BL under the parents taken in the order of the
\* previous pass; and no pass visits a node below a node with u = 1, so no
\* bit is written for such a node.
C19_PassOrder ==
    pc = "compressed" =>
        /\ bits = Concat([j \in 1..(tree.n_levels + 1) |->
                            PassWritten(tree.root, j - 1, tree.n_levels)])
        /\ \A k \in 0..tree.n_levels :
              LET unpruned(p) ==
                    \A i \in 1..Len(p) :
                        p[i].path \notin Pruned(tree.root, <<>>, FALSE)
              IN unpruned(PassNodes(tree.root, k))

\* a 4x4 tree written in three passes: pass 2 goes under two or three of
\* the depth-1 nodes and skips the uniform ones
C19_Witness ==
    /\ pc = "compressed"
    /\ tree.n_levels = 2
    /\ Groups(tree.root, 2) \in 2..3
    /\ \E q \in 1..4 : tree.root.children[q].u = 1
    /\ bits = Concat([j \in 1..3 |-> PassWritten(tree.root, j - 1, 2)])

\* the means of the nodes of pass k, in order
PassMeans(root, k) ==
    LET means(p) == [i \in 1..Len(p) |-> p[i].node.m]
    IN means(PassNodes(root, k))

\* C20: fourth-mean reconstruction.  For the four bytes m0, m1, m2, m3 of a
\* 2x2 raster, with m = (m0+m1+m2+m3) div 4 and e = (m0+m1+m2+m3) mod 4,
\* calculate_fourth_mean(m, e, m0, m1, m2) is m3, a byte.  In a decoded
\* tree the BL child of every node with children has the mean
\* (4*m + e - TL.m - TR.m - BR.m) mod 256 of its parent and siblings, which
\* is what calculate_fourth_mean returns for them and the mean of the node
\* the encoder skipped.
C20_FourthMean ==
    /\ Len(pixels) = 4 =>
          LET sum == pixels[1] + pixels[2] + pixels[3] + pixels[4]
          IN /\ calculate_fourth_mean(sum \div 4, sum % 4,
                                      pixels[1], pixels[2], pixels[4]) = pixels[3]
             /\ calculate_fourth_mean(sum \div 4, sum % 4,
                                      pixels[2], pixels[3], pixels[4]) = pixels[1]
    /\ (pc = "decoded" /\ dstatus = QTREE_SUCCESS) =>
          /\ \A r \in Regions(dtree.root, 0, 0, 0, size) :
                r.node.children # <<>> =>
                   LET c == r.node.children
                   IN /\ c[4].m = (4 * r.node.m + r.node.e
                                     - c[1].m - c[2].m - c[3].m) % 256
                      /\ c[4].m = calculate_fourth_mean(r.node.m, r.node.e,
                                                        c[1].m, c[2].m, c[3].m)
          /\ \A k \in 1..tree.n_levels :
                PassMeans(dtree.root, k) = PassMeans(tree.root, k)

\* a decoded 2x2 raster with a residual whose BL pixel, 255, was rebuilt
C20_Witness ==
    /\ pc = "decoded" /\ dstatus = QTREE_SUCCESS
    /\ Len(pixels) = 4 /\ pixels[3] = 255 /\ pixels[1] = 0
    /\ dtree.root.e = 3
    /\ dtree.root.children # <<>>
    /\ dtree.root.children[4].m = 255

(* ------------------- the decoder's heap, level by level ---------------- *)

\* the ids of the decoder's nodes of depth k, in the order they were read:
\* the root, then the children linked under the nodes of depth k - 1
RECURSIVE HeapLevel(_, _)
HeapLevel(heap, k) ==
    IF k = 0 THEN IF heap = <<>> THEN <<>> ELSE <<1>>
    ELSE LET under(prev) ==
                 Concat([i \in 1..Len(prev) |->
                     SelectSeq(heap[prev[i]].children,
                               LAMBDA c : c # NULL_NODE)])
         IN under(HeapLevel(heap, k - 1))

\* the bits decompress_node takes for the i-th node of level k: m unless it
\* is a fourth child, e and possibly u above the last level
NodeBitsRead(heap, level, i, k, max_level) ==
    (IF k >= 1 /\ i % 4 = 0 THEN 0 ELSE 8)
    + (IF k < max_level THEN IF heap[level[i]].e = 0 THEN 3 ELSE 2 ELSE 0)

\* the bits taken for the levels 0..k
RECURSIVE BitsReadThrough(_, _, _)
BitsReadThrough(heap, k, max_level) ==
    LET bits_of(level) ==
            SumSeq([i \in 1..Len(level) |->
                       NodeBitsRead(heap, level, i, k, max_level)])
    IN bits_of(HeapLevel(heap, k))
       + IF k = 0 THEN 0 ELSE BitsReadThrough(heap, k - 1, max_level)

\* the number of nodes of the levels 0..k
RECURSIVE NodesThrough(_, _)
NodesThrough(heap, k) ==
    Len(HeapLevel(heap, k)) + IF k = 0 THEN 0 ELSE NodesThrough(heap, k - 1)

\* C21: decoder worklist.  A decoded node with u = 1 has no child.  Once all
\* the nodes decoded at some depth k < n_levels are uniform, the work list
\* of the next pass is empty: no node of depth k + 1 or more exists, the
\* reader has taken the bits of the levels 0..k and no more, and
\* qtree_decompress returns QTREE_SUCCESS.
C21_DecoderWorklist ==
    pc = "decoded" =>
        /\ \A i \in 1..Len(dmem.heap) :
              dmem.heap[i].u = 1 =>
                 dmem.heap[i].children = <<NULL_NODE, NULL_NODE, NULL_NODE, NULL_NODE>>
        /\ \A k \in 0..(dtree.n_levels - 1) :
              LET emptied(level) ==
                    (/\ level # <<>>
                     /\ \A i \in 1..Len(level) : dmem.heap[level[i]].u = 1)
                    => /\ dstatus = QTREE_SUCCESS
                       /\ Len(dmem.heap) = NodesThrough(dmem.heap, k)
                       /\ BitsRead(dreader)
                            = BitsReadThrough(dmem.heap, k, dtree.n_levels)
              IN emptied(HeapLevel(dmem.heap, k))

\* a 4x4 stream whose four depth-1 nodes are uniform: the pass of depth 2
\* has nothing to read
C21_Witness ==
    /\ pc = "decoded" /\ dstatus = QTREE_SUCCESS
    /\ dtree.n_levels = 2
    /\ Len(dmem.heap) = 5
    /\ dmem.heap[1].u = 0
    /\ \A i \in 2..5 : dmem.heap[i].u = 1
    /\ BitsRead(dreader) = 8 + 2 + 3 * 8 + 4 * 3

\* a tree of n_levels levels in which every node has no children or four,
\* has none exactly when u = 1, lies at depth n_levels at most and, at
\* depth n_levels, is a childless node with e = 0 and u = 1
WellFormed(root, n_levels) ==
    \A r \in Regions(root, 0, 0, 0, size) :
        /\ Len(r.node.children) \in {0, 4}
        /\ r.node.children = <<>> <=> r.node.u = 1
        /\ r.depth <= n_levels
        /\ r.depth = n_levels =>
              r.node.children = <<>> /\ r.node.e = 0 /\ r.node.u = 1

\* C22: well-formed tree.  The tree qtree_build returns and the tree a
\* successful qtree_decompress returns are well formed: no children or
\* exactly four (in the decoder's nodes: four NULL pointers or none), no
\* children if and only if u = 1, no node deeper than n_levels, and every
\* node of depth n_levels childless with e = 0, u = 1.
C22_WellFormedTree ==
    /\ (pc = "built" /\ nfilter = 0) => WellFormed(tree.root, tree.n_levels)
    /\ (pc = "decoded" /\ dstatus = QTREE_SUCCESS) =>
          /\ \A i \in 1..Len(dmem.heap) :
                \/ \A q \in 1..4 : dmem.heap[i].children[q] = NULL_NODE
                \/ \A q \in 1..4 : dmem.heap[i].children[q] # NULL_NODE
          /\ WellFormed(dtree.root, dtree.n_levels)

\* a decoded 4x4 tree with uniform and non-uniform nodes at depth 1
C22_Witness ==
    /\ pc = "decoded" /\ dstatus = QTREE_SUCCESS
    /\ dtree.n_levels = 2
    /\ dtree.root.u = 0
    /\ \E q \in 1..4 : dtree.root.children[q].u = 1
    /\ \E q \in 1..4 : Len(dtree.root.children[q].children) = 4
    /\ WellFormed(dtree.root, 2)

\* the bits b cut into bytes, first bit in the high position, the last byte
\* filled up with zero bits
Packed(b) ==
    LET bit(k) == IF k <= Len(b) THEN b[k] ELSE 0
    IN [n \in 1..((Len(b) + 7) \div 8) |->
          SumSeq([j \in 1..8 |-> bit(8 * (n - 1) + j) * Pow(2, 8 - j)])]

\* C23: bit writer packing.  As long as no fwrite has failed, total_bits is
\* the number of bits handed to compress_write_bit / compress_write_bits;
\* before the flush the file holds the complete bytes of those bits, first
\* bit in the high position; after compress_flush it holds all of them, the
\* last byte padded with zero bits, total_bits is as before, and a second
\* compress_flush has written nothing more.
C23_WriterPacking ==
    writer.state.error = 0 =>
        LET n == Len(writer.appended)
        IN /\ writer.state.total_bits = n
           /\ writer.flushes = 0 =>
                 /\ writer.state.file.bytes
                       = SubSeq(Packed(writer.appended), 1, n \div 8)
                 /\ writer.state.bytes_written = n \div 8
                 /\ writer.state.bit_position = n % 8
           /\ writer.flushes >= 1 =>
                 /\ writer.state.file.bytes = Packed(writer.appended)
                 /\ writer.state.bytes_written = (n + 7) \div 8
                 /\ writer.state.file.attempts = (n + 7) \div 8
                 /\ writer.state.bit_position = 0

\* 32 bits of one value and three more, flushed twice
C23_Witness ==
    /\ writer.state.error = 0
    /\ writer.flushes = 2
    /\ Len(writer.appended) = 35
    /\ writer.appended[1] = 0 /\ writer.appended[2] = 1
    /\ writer.state.total_bits = 35
    /\ Len(writer.state.file.bytes) = 5
    /\ writer.state.file.bytes[1] = 127

\* C24: sticky errors.  From the call in which a failed fwrite set the
\* writer's error on, every compress_write_bit, compress_write_bits and
\* compress_flush call leaves the whole writer state as that call left it:
\* buffer, bit_position, bytes_written, total_bits, the bytes of the file
\* and the number of fwrite calls, with error still set.  From the call in
\* which the reader recorded an error on, every read_bit and read_bits call
\* leaves the reader as it was (no byte pulled, has_error set) and
\* returns 0.
C24_StickyErrors ==
    /\ writer.at_error # <<>> =>
          /\ writer.state = writer.at_error[1].state
          /\ writer.state.error = 1
    /\ breader.at_error # <<>> =>
          /\ breader.reader = breader.at_error[1].reader
          /\ breader.reader.has_error
          /\ breader.calls > breader.at_error[1].calls => breader.last = 0

\* a writer whose second fwrite failed, called again and flushed twice
\* after that, and then a reader that met the end of its stream and was
\* called again
C24_Witness ==
    /\ writer.at_error # <<>>
    /\ writer.state.file.attempts = 2
    /\ Len(writer.state.file.bytes) = 1
    /\ writer.calls >= writer.at_error[1].calls + 3
    /\ writer.flushes = 2
    /\ breader.at_error # <<>>
    /\ breader.file # <<>>
    /\ breader.calls > breader.at_error[1].calls

\* number of times heap index id was handed to free during the build
TimesFreedAlloc(id) ==
    Cardinality({ k \in 1..Len(balloc.freed) : balloc.freed[k] = id })

\* C25: builder failure.  When a malloc fails during qtree_build, the call
\* returns QTREE_ERROR_MEMORY with tree->root NULL, and every node allocated
\* during the call, the placeholder of a leaf included, was freed exactly
\* once.
C25_BuildFailureFreesAll ==
    (pc \in {"failed", "built"} /\ balloc.fail_at # 0
       /\ balloc.fail_at <= balloc.allocs) =>
        /\ pc = "failed"
        /\ status = QTREE_ERROR_MEMORY
        /\ balloc.root = NULL_NODE
        /\ tree.root = NoTree
        /\ \A id \in 1..Len(balloc.heap) : TimesFreedAlloc(id) = 1

\* a 4x4 build that fails at the leaf after a placeholder, with a finished
\* quadrant and part of another already built
C25_Witness ==
    /\ pc = "failed"
    /\ tree.n_levels = 2
    /\ status = QTREE_ERROR_MEMORY
    /\ balloc.fail_at = 15
    /\ balloc.allocs = 15
    /\ Len(balloc.heap) = 14
    /\ \A id \in 1..14 : TimesFreedAlloc(id) = 1

\* without a failure the heap holds the tree build_recursive describes
AllocBuildAgrees ==
    (pc = "built" /\ balloc.fail_at > balloc.allocs) =>
        /\ Shape(tree.root) = Shape(build_recursive(pixels, size, tree.n_levels, 0, 0))
        /\ balloc.allocs = build_allocs(tree.n_levels)

\* new is what the filter may make of old: the same m; either promoted
\* (children gone, e = 0, u = 1) or e as before and four children, each of
\* which is what the filter may make of the old child
RECURSIVE FilterFrame(_, _)
FilterFrame(old, new) ==
    /\ new.m = old.m
    /\ IF old.children # <<>> /\ new.children = <<>>
       THEN new.e = 0 /\ new.u = 1
       ELSE /\ new.e = old.e
            /\ Len(new.children) = Len(old.children)
            /\ \A q \in 1..Len(old.children) :
                  FilterFrame(old.children[q], new.children[q])

\* the nodes of old that new shows as promoted
RECURSIVE Promoted(_, _)
Promoted(old, new) ==
    IF old.children = <<>> THEN 0
    ELSE IF new.children = <<>> THEN 1
    ELSE SumSeq([q \in 1..4 |-> Promoted(old.children[q], new.children[q])])

\* C26: filter frame.  apply_lossy_compression changes the m of no node; it
\* changes e only on the nodes it promotes, where e becomes 0; a node it
\* does not promote keeps its four children.
C26_FilterFrame ==
    (pc = "built" /\ nfilter >= 1) => FilterFrame(before, tree.root)

\* a 4x4 tree after one call that promoted a node with a residual and left
\* the root, with its residual, non-promoted
C26_Witness ==
    /\ pc = "built" /\ nfilter = 1
    /\ tree.n_levels = 2
    /\ tree.root.children # <<>>
    /\ tree.root.e # 0
    /\ Promoted(before, tree.root) >= 1
    /\ \E q \in 1..4 : /\ before.children[q].e # 0
                       /\ tree.root.children[q].children = <<>>
                       /\ tree.root.children[q].e = 0
    /\ FilterFrame(before, tree.root)


\* C27: for every depth byte L in 1..32, qtree_decompress accepts the
\* header, sets tree->n_levels to L and tree->size to 2^L exactly, and none
\* of the shifts and products it derives from L is out of range or wraps.
C27_DepthArithmetic ==
    (pc = "decoded" /\ damage = "relabelled")
        => /\ file[HeaderLen] \in 1..32
           /\ dtree.n_levels = file[HeaderLen]
           /\ dstats.size = {file[HeaderLen]}
           /\ dstats.undefined = {}
           /\ dstats.wrapped = {}


\* the position of the first line feed after position pos of the stream
LineFeedAfter(stream, pos) ==
    CHOOSE p \in (pos + 1)..Len(stream) :
        /\ stream[p] = 10
        /\ \A q \in (pos + 1)..(p - 1) : stream[q] # 10

\* the position of the line feed that ends the second line after the magic
\* line
SecondLineFeed(stream) == LineFeedAfter(stream, LineFeedAfter(stream, 3))

\* C28: for every stream made of the magic line and two lines each ended by
\* a line feed, whatever their content and length, the decoder takes the
\* byte after the second line's line feed as the depth and starts reading
\* body bits at the byte after it.
C28_HeaderParsing ==
    (pc = "decoded" /\ damage = "lines")
        => LET depth_at == SecondLineFeed(file) + 1
               body == qtree_decompress(file, depth_at, file[depth_at])
           IN /\ dtree.n_levels = file[depth_at]
              /\ dreader = body.reader
              /\ dstatus = body.status


\* C29: lossy round trip.  For a tree built and then filtered with an
\* alpha above 1, the raster rendered from the decoded stream is the raster
\* qtree_to_pgm renders from the filtered tree itself, also when a
\* filtered node has u = 1 and still holds children.
C29_LossyRoundTrip ==
    (pc = "rendered" /\ nfilter >= 1) =>
        /\ alpha[1] > alpha[2]
        /\ pgm = qtree_to_pgm(tree.root, size)

C29_Witness ==
    /\ pc = "rendered" /\ nfilter = 1
    /\ tree.root.u = 0
    /\ \E k \in 1..4 : /\ tree.root.children[k].u = 1
                        /\ tree.root.children[k].children # <<>>
    /\ pgm = qtree_to_pgm(tree.root, size)
    /\ pgm # pixels


\* the steps of out.done that come before step in it
DoneBefore(step) ==
    { out.done[i] : i \in 1..Len(out.done) } \
    { out.done[i] : i \in { j \in 1..Len(out.done) :
                              \E k \in 1..j : out.done[k] = step } }

\* C30: codec_compress opens (and truncates) the output file only after
\* reading the raster, qtree_init, qtree_build and the optional filter
\* have succeeded, and compress writes the first header byte only after
\* the whole body is encoded in the temporary buffer; so when one of the
\* earlier steps fails, the run writes no byte to the output file.
C30_OutputOrdering ==
    /\ (out.opened \/ out.output # OldOutput) =>
           {"pgm_read", "qtree_init", "qtree_build",
            "apply_lossy_compression"} \subseteq DoneBefore("fopen")
    /\ out.written # <<>> =>
           /\ DoneBefore("write_header") =
                 {"pgm_read", "qtree_init", "qtree_build",
                  "apply_lossy_compression", "fopen", "tmpfile",
                  "compress_tree_data"}
           /\ out.temp = written_bytes(compress_tree_data(tree.n_levels,
                                                          tree.root))
    /\ out.failed \in {"pgm_read", "qtree_init", "qtree_build",
                       "apply_lossy_compression"} =>
           /\ ~out.opened /\ out.output = OldOutput /\ out.written = <<>>
           /\ out.pc = "returned" => file = OldOutput
    /\ out.failed \in {"fopen", "tmpfile", "compress_tree_data"} =>
           out.written = <<>>

C30_Witness ==
    /\ out.pc = "returned" /\ out.failed = "compress_tree_data"
    /\ out.lossy /\ out.opened /\ out.temp # <<>>
    /\ out.written = <<>> /\ file = <<>>

=========================================================================
